---- MODULE Spec2Model ----
(***************************************************************************)
(* netbox-agent: the reconciliation of a host's hardware (module bays and  *)
(* modules, module_inventory.py) and of its network interfaces             *)
(* (network.py) against the remote NetBox inventory.                       *)
(*                                                                         *)
(* The remote inventory is a plain store: it keeps what it is given and    *)
(* enforces no constraint of its own, so that every property checked here  *)
(* is decided by the agent's code.  Lists returned by the remote are in    *)
(* creation order.  Python's None is the string "None" for names and       *)
(* modes, and the id 0 for references.                                     *)
(***************************************************************************)
EXTENDS Integers, Sequences, FiniteSets, TLC

VARIABLES
    nb,      \* the remote inventory (config.netbox_instance)
    local,   \* the local facts of the host (lshw, raid tools, dmidecode, /sys)
    last,    \* the last operation: its name, remote calls, outcome, pre-state
    hist     \* the operations run so far, and the remote state at start

vars == <<nb, local, last, hist>>

(***************************************************************************)
(* Bounds of the model.                                                    *)
(***************************************************************************)
MaxRuns == 3        \* operations per behaviour
MaxLocal == 2       \* local components of the varied category
MaxAbort == 2       \* an aborted run fails at its 1st .. (MaxAbort+1)th write

(***************************************************************************)
(* Strings and Python helpers.                                             *)
(***************************************************************************)
Digits == {"0", "1", "2", "3", "4", "5", "6", "7", "8", "9"}

Letters ==
    {"a", "b", "c", "d", "e", "f", "g", "h", "i", "j", "k", "l", "m",
     "n", "o", "p", "q", "r", "s", "t", "u", "v", "w", "x", "y", "z",
     "A", "B", "C", "D", "E", "F", "G", "H", "I", "J", "K", "L", "M",
     "N", "O", "P", "Q", "R", "S", "T", "U", "V", "W", "X", "Y", "Z"}

Whitespace == {" "}

Min(S) == CHOOSE x \in S : \A y \in S : x <= y

Max(S) == CHOOSE x \in S : \A y \in S : x >= y

CharAt(s, i) == IF i >= 1 /\ i <= Len(s) THEN SubSeq(s, i, i) ELSE ""

\* str.startswith
StartsWith(s, p) == Len(s) >= Len(p) /\ SubSeq(s, 1, Len(p)) = p

\* s[n:]
DropFirst(s, n) == IF Len(s) <= n THEN "" ELSE SubSeq(s, n + 1, Len(s))

RECURSIVE Replace(_, _, _)
\* str.replace for a one-character pattern
Replace(s, a, b) ==
    IF s = "" THEN ""
    ELSE (IF CharAt(s, 1) = a THEN b ELSE CharAt(s, 1))
             \o Replace(DropFirst(s, 1), a, b)

RECURSIVE Strip(_)
\* str.strip
Strip(s) ==
    IF s = "" THEN ""
    ELSE IF CharAt(s, 1) \in Whitespace THEN Strip(DropFirst(s, 1))
    ELSE IF CharAt(s, Len(s)) \in Whitespace THEN Strip(SubSeq(s, 1, Len(s) - 1))
    ELSE s

RECURSIVE Split(_, _)
\* str.split(sep) for a one-character separator
Split(s, sep) ==
    LET cut == {i \in 1..Len(s) : CharAt(s, i) = sep}
    IN  IF cut = {} THEN <<s>>
        ELSE <<SubSeq(s, 1, Min(cut) - 1)>> \o Split(DropFirst(s, Min(cut)), sep)

DigitValue(c) ==
    CASE c = "0" -> 0 [] c = "1" -> 1 [] c = "2" -> 2 [] c = "3" -> 3
      [] c = "4" -> 4 [] c = "5" -> 5 [] c = "6" -> 6 [] c = "7" -> 7
      [] c = "8" -> 8 [] c = "9" -> 9

\* whether int(s) succeeds
IsInt(s) == s # "" /\ \A i \in 1..Len(s) : CharAt(s, i) \in Digits

RECURSIVE ParseInt(_)
\* int(s)
ParseInt(s) ==
    IF Len(s) = 1 THEN DigitValue(s)
    ELSE 10 * ParseInt(SubSeq(s, 1, Len(s) - 1)) + DigitValue(CharAt(s, Len(s)))

RECURSIVE ForEach(_, _, _, _)
\* for x in seq: L = Op(L, x)
ForEach(Op(_, _), L, seq, i) ==
    IF i > Len(seq) THEN L ELSE ForEach(Op, Op(L, seq[i]), seq, i + 1)

\* [x for x in seq if Test(x)]
RECURSIVE SelectFrom(_, _, _)
SelectFrom(seq, Test(_), i) ==
    IF i > Len(seq) THEN <<>>
    ELSE (IF Test(seq[i]) THEN <<seq[i]>> ELSE <<>>) \o SelectFrom(seq, Test, i + 1)

\* list.remove(x): the list without its first element equal to x
ListRemove(seq, x) ==
    LET i == Min({k \in DOMAIN seq : seq[k] = x})
    IN  SubSeq(seq, 1, i - 1) \o SubSeq(seq, i + 1, Len(seq))

Range(seq) == {seq[i] : i \in DOMAIN seq}

\* {Key(x): x for x in seq}: a later element replaces an earlier one
DictOf(seq, Key(_)) ==
    [k \in {Key(seq[i]) : i \in DOMAIN seq} |->
        seq[Max({i \in DOMAIN seq : Key(seq[i]) = k})]]

\* dict.get(k): the value, or the record NoRecord
NoRecord == [id |-> 0]

DictGet(d, k) == IF k \in DOMAIN d THEN d[k] ELSE NoRecord

DictSet(d, k, v) == [x \in DOMAIN d \cup {k} |-> IF x = k THEN v ELSE d[x]]

(***************************************************************************)
(* The remote inventory seen by module_inventory.py.                       *)
(*   nb.bays     module bays of the device: [id, name]                     *)
(*   nb.modules  modules of the device: [id, bay, mtype, serial]           *)
(* A run threads a context st: the remote state, the calls issued so far   *)
(* (calls), the local components whose iteration began (visited), whether  *)
(* an exception is propagating (raised) and how many remote writes are     *)
(* left before the transport fails (budget, -1: never).                    *)
(***************************************************************************)

\* nb.dcim.module_types: the catalog, which the agent only reads
ModuleTypeCatalog ==
    << [id |-> 1, part_number |-> "6130", model |-> "Xeon Gold 6130", profile |-> "CPU"],
       [id |-> 2, part_number |-> "E5-2620v4", model |-> "Xeon E5-2620 v4", profile |-> "CPU"],
       [id |-> 3, part_number |-> "M393A2K40", model |-> "DDR4 16G", profile |-> "Memory"],
       [id |-> 4, part_number |-> "HMA84GR7", model |-> "DDR4 32G", profile |-> "None"],
       [id |-> 5, part_number |-> "", model |-> "MB1000GCWCV", profile |-> "Hard disk"],
       [id |-> 6, part_number |-> "", model |-> "MO0400JEFPA", profile |-> "Hard disk"],
       [id |-> 7, part_number |-> "", model |-> "Smart Array P408i-a", profile |-> "RAID Controller"],
       [id |-> 8, part_number |-> "", model |-> "Ethernet 1Gb 4-port 331i", profile |-> "NIC"],
       [id |-> 9, part_number |-> "", model |-> "Ethernet 10Gb 2-port 562SFP+", profile |-> "NIC"],
       [id |-> 10, part_number |-> "865414-B21", model |-> "800W FS Plat", profile |-> "Power supply"],
       [id |-> 11, part_number |-> "720478-B21", model |-> "500W FS Plat", profile |-> "Power supply"] >>

\* the module type with the given id
ModuleType(id) ==
    LET i == CHOOSE k \in DOMAIN ModuleTypeCatalog : ModuleTypeCatalog[k].id = id
    IN  ModuleTypeCatalog[i]

MatchesTypeFilter(t, part_number, model) ==
    /\ part_number # "" => t.part_number = part_number
    /\ model # "" => t.model = model

\* ModuleInventory.get_netbox_module_type: the first catalog entry with the
\* part number and/or model, NoRecord (None) when there is none or when both
\* arguments are empty
get_netbox_module_type(part_number, model) ==
    LET hits == {k \in DOMAIN ModuleTypeCatalog :
                    MatchesTypeFilter(ModuleTypeCatalog[k], part_number, model)}
    IN  IF (part_number = "" /\ model = "") \/ hits = {} THEN NoRecord
        ELSE ModuleTypeCatalog[Min(hits)]

\* a variant that lists the bays named exactly like the prefix
get_netbox_module_bays_ExactName(st, prefix) ==
    LET Keep(bay) == bay.name = prefix
    IN  SelectFrom(st.bays, Keep, 1)

\* ModuleInventory.get_netbox_module_bays
get_netbox_module_bays(st, prefix) ==
    LET Keep(bay) == StartsWith(bay.name, prefix)
    IN  SelectFrom(st.bays, Keep, 1)

\* ModuleInventory.get_netbox_modules
get_netbox_modules(st, profile) ==
    LET Keep(module) ==
            \/ profile # "" /\ ModuleType(module.mtype).profile = profile
            \/ profile = ""
    IN  SelectFrom(st.modules, Keep, 1)

\* module.module_bay: the bay record of a module (NoRecord if the bay is gone)
module_bay(st, module) ==
    LET hits == {k \in DOMAIN st.bays : st.bays[k].id = module.bay}
    IN  IF hits = {} THEN NoRecord ELSE st.bays[Min(hits)]

\* the transport fails on this write
TransportFails(st) == st.budget = 0

Raise(st, why) == [st EXCEPT !.raised = TRUE, !.why = why]

Spend(st) == [st EXCEPT !.budget = IF @ > 0 THEN @ - 1 ELSE @]

\* nb.dcim.modules.create(device, module_bay, module_type, serial, status)
modules_create(st, bay, mtype, serial, cat, idx) ==
    IF st.raised THEN st
    ELSE IF TransportFails(st) THEN Raise(st, "transport")
    ELSE [Spend(st) EXCEPT
            !.modules = Append(@, [id |-> st.nextId, bay |-> bay,
                                   mtype |-> mtype, serial |-> serial]),
            !.nextId = @ + 1,
            !.calls = Append(@, [op |-> "modules.create", id |-> st.nextId,
                                 bay |-> bay, mtype |-> mtype, serial |-> serial,
                                 cat |-> cat, idx |-> idx])]

\* module.delete(): the remote answers 404 for a module that is gone
module_delete(st, module, cat, idx) ==
    IF st.raised THEN st
    ELSE IF TransportFails(st) THEN Raise(st, "transport")
    ELSE IF \A k \in DOMAIN st.modules : st.modules[k].id # module.id
    THEN Raise(st, "RequestError")
    ELSE LET Keep(m) == m.id # module.id
         IN  [Spend(st) EXCEPT
                !.modules = SelectFrom(@, Keep, 1),
                !.calls = Append(@, [op |-> "modules.delete", id |-> module.id,
                                     bay |-> module.bay, mtype |-> module.mtype,
                                     serial |-> module.serial,
                                     cat |-> cat, idx |-> idx])]

\* nb.dcim.module_bays.create(device, name)
module_bays_create(st, name, cat, idx) ==
    IF st.raised THEN st
    ELSE IF TransportFails(st) THEN Raise(st, "transport")
    ELSE [Spend(st) EXCEPT
            !.bays = Append(@, [id |-> st.nextId, name |-> name]),
            !.nextId = @ + 1,
            !.calls = Append(@, [op |-> "module_bays.create", id |-> st.nextId,
                                 name |-> name, cat |-> cat, idx |-> idx])]

\* the iteration of a category's loop over its idx-th local component begins
Visit(st, cat, idx) ==
    IF st.raised THEN st ELSE [st EXCEPT !.visited = Append(@, <<cat, idx>>)]

(***************************************************************************)
(* do_netbox_cpus                                                          *)
(***************************************************************************)

\* the end of ([A-Za-z][0-9]-)?\d{4} matched at position i, 0 if no match
CpuCoreEnd(s, i) ==
    LET FourDigits(j) == \A k \in 0..3 : CharAt(s, j + k) \in Digits
    IN  IF /\ CharAt(s, i) \in Letters
           /\ CharAt(s, i + 1) \in Digits
           /\ CharAt(s, i + 2) = "-"
           /\ FourDigits(i + 3)
        THEN i + 6
        ELSE IF FourDigits(i) THEN i + 3 ELSE 0

RECURSIVE SkipWhitespace(_, _)
SkipWhitespace(s, j) ==
    IF CharAt(s, j) \in Whitespace THEN SkipWhitespace(s, j + 1) ELSE j

\* the end of the greedy tail \s*[A-Za-z]?[0-9]? after a core ending at e
CpuTailEnd(s, e) ==
    LET j1 == SkipWhitespace(s, e + 1)
        j2 == IF CharAt(s, j1) \in Letters THEN j1 + 1 ELSE j1
        j3 == IF CharAt(s, j2) \in Digits THEN j2 + 1 ELSE j2
    IN  j3 - 1

\* re.search(r"([A-Za-z][0-9]-)?\d{4}\s*[A-Za-z]?[0-9]?", cpu_name), then
\* match.group(0).replace(" ", ""), "" without a match
CpuPartNumber(cpu_name) ==
    LET starts == {i \in 1..Len(cpu_name) : CpuCoreEnd(cpu_name, i) # 0}
    IN  IF starts = {} THEN ""
        ELSE LET i == Min(starts)
             IN  Replace(SubSeq(cpu_name, i, CpuTailEnd(cpu_name, CpuCoreEnd(cpu_name, i))),
                         " ", "")

\* one iteration of "for cpu in cpus"; L: [st, cpu_bays, cpu_modules, idx]
cpu_step(L, cpu) ==
    LET idx == L.idx + 1
        st == Visit(L.st, "cpu", idx)
        part_number == CpuPartNumber(cpu.product)
        hits == {k \in DOMAIN L.cpu_modules :
                    ModuleType(L.cpu_modules[k].mtype).part_number = part_number}
        existing_cpu == L.cpu_modules[Min(hits)]
        module_type == get_netbox_module_type(part_number, "")
    IN  IF L.st.raised THEN L
        ELSE IF hits # {}
        THEN \* cpu_bays.remove raises ValueError when the bay is not listed
             IF module_bay(st, existing_cpu) \notin Range(L.cpu_bays)
             THEN [L EXCEPT !.st = Raise(st, "ValueError"), !.idx = idx]
             ELSE [L EXCEPT !.st = st, !.idx = idx,
                            !.cpu_bays = ListRemove(@, module_bay(st, existing_cpu)),
                            !.cpu_modules = ListRemove(@, existing_cpu)]
        ELSE IF L.cpu_bays = <<>> THEN [L EXCEPT !.st = st, !.idx = idx]
        ELSE IF module_type = NoRecord
        THEN [L EXCEPT !.st = st, !.idx = idx, !.cpu_bays = Tail(@)]
        ELSE [L EXCEPT !.st = modules_create(st, Head(L.cpu_bays).id, module_type.id,
                                             "", "cpu", idx),
                       !.idx = idx, !.cpu_bays = Tail(@)]

\* a faulty variant of do_netbox_cpus: it goes on without the capacity check
do_netbox_cpus_Unchecked(st, cpus) ==
    IF st.raised THEN st
    ELSE ForEach(cpu_step,
                 [st |-> st, cpu_bays |-> get_netbox_module_bays(st, "CPU"),
                  cpu_modules |-> get_netbox_modules(st, "CPU"), idx |-> 0],
                 cpus, 1).st

do_netbox_cpus(st, cpus) ==
    LET cpu_bays == get_netbox_module_bays(st, "CPU")
        cpu_modules == get_netbox_modules(st, "CPU")
    IN  IF st.raised THEN st
        ELSE IF Len(cpu_bays) = 0 \/ (Len(cpu_bays) > 0 /\ Len(cpus) > Len(cpu_bays))
        THEN st
        ELSE ForEach(cpu_step,
                     [st |-> st, cpu_bays |-> cpu_bays, cpu_modules |-> cpu_modules,
                      idx |-> 0],
                     cpus, 1).st

(***************************************************************************)
(* The fixed-identity categories.  L: [st, bay_map, module_map, idx].      *)
(***************************************************************************)
BayName(bay) == bay.name

\* {m.module_bay.name: m for m in modules if m.module_bay and hasattr(..)}
ModuleMapOf(st, modules) ==
    LET HasBay(m) == module_bay(st, m) # NoRecord
        KeyOf(m) == module_bay(st, m).name
    IN  DictOf(SelectFrom(modules, HasBay, 1), KeyOf)

FixedLoop(st, bays, modules) ==
    [st |-> st, bay_map |-> DictOf(bays, BayName),
     module_map |-> ModuleMapOf(st, modules), idx |-> 0]

\* the bay just created by module_bays_create (NoRecord if the call failed)
CreatedBay(st) == IF st.raised THEN NoRecord ELSE st.bays[Len(st.bays)]

\* a faulty variant of the loop body of do_netbox_memories: a module with
\* another part number is given the resolved module type in place
memory_step_Patches(L, memory) ==
    LET idx == L.idx + 1
        st == Visit(L.st, "memory", idx)
        bay == DictGet(L.bay_map, "Memory " \o memory.slot)
        found == DictGet(L.module_map, "Memory " \o memory.slot)
        module_type == get_netbox_module_type(memory.product, "")
        Retype(m) == IF m.id = found.id THEN [m EXCEPT !.mtype = module_type.id] ELSE m
    IN  IF L.st.raised THEN L
        ELSE IF module_type = NoRecord THEN [L EXCEPT !.st = st, !.idx = idx]
        ELSE IF found # NoRecord
        THEN IF found.mtype = module_type.id THEN [L EXCEPT !.st = st, !.idx = idx]
             ELSE [L EXCEPT
                     !.st = [st EXCEPT
                               !.modules = [k \in DOMAIN st.modules |->
                                               Retype(st.modules[k])],
                               !.calls = Append(@, [op |-> "modules.update",
                                                    id |-> found.id, bay |-> found.bay,
                                                    mtype |-> module_type.id,
                                                    serial |-> found.serial,
                                                    cat |-> "memory", idx |-> idx])],
                     !.idx = idx]
        ELSE IF bay # NoRecord
        THEN [L EXCEPT !.st = modules_create(st, bay.id, module_type.id, "",
                                             "memory", idx),
                       !.idx = idx]
        ELSE [L EXCEPT !.st = st, !.idx = idx]

(***************************************************************************)
(* do_netbox_memories                                                      *)
(***************************************************************************)
memory_step(L, memory) ==
    LET idx == L.idx + 1
        st == Visit(L.st, "memory", idx)
        slot == memory.slot
        part_number == memory.product
        bay == DictGet(L.bay_map, "Memory " \o slot)
        found == DictGet(L.module_map, "Memory " \o slot)
        mismatch == found # NoRecord
                      /\ ModuleType(found.mtype).part_number # part_number
        st1 == IF mismatch THEN module_delete(st, found, "memory", idx) ELSE st
        existing_module == IF mismatch THEN NoRecord ELSE found
        module_type == get_netbox_module_type(part_number, "")
    IN  IF L.st.raised THEN L
        ELSE IF existing_module = NoRecord /\ bay # NoRecord
        THEN IF module_type = NoRecord THEN [L EXCEPT !.st = st1, !.idx = idx]
             ELSE [L EXCEPT !.st = modules_create(st1, bay.id, module_type.id, "",
                                                  "memory", idx),
                            !.idx = idx]
        ELSE [L EXCEPT !.st = st1, !.idx = idx]

do_netbox_memories(st, memories) ==
    IF st.raised THEN st
    ELSE ForEach(memory_step,
                 FixedLoop(st, get_netbox_module_bays(st, "Memory"),
                           get_netbox_modules(st, "Memory")),
                 memories, 1).st

(***************************************************************************)
(* do_netbox_disks                                                         *)
(***************************************************************************)
RECURSIVE Uniq(_, _, _)
\* [x for x in disks if x["SN"] not in seen and not seen.add(x["SN"])]
Uniq(disks, seen, i) ==
    IF i > Len(disks) THEN <<>>
    ELSE IF disks[i].SN \in seen THEN Uniq(disks, seen, i + 1)
    ELSE <<disks[i]>> \o Uniq(disks, seen \cup {disks[i].SN}, i + 1)

\* the end of ModuleInventory.get_hw_disks: duplicate serials are removed
get_hw_disks(disks) == Uniq(disks, {}, 1)

\* a faulty variant of the loop body of do_netbox_disks: box and bay are
\* exchanged in the bay name
disk_step_SwapsBoxAndBay(L, disk) ==
    LET idx == L.idx + 1
        st == Visit(L.st, "disk", idx)
        model == DropFirst(disk.Model, 8)
        pd_id == IF disk.pd_identifier \in {"None", ""} THEN disk.pd_identifier
                 ELSE Strip(disk.pd_identifier)
        parts == Split(pd_id, ":")
        box == parts[2]
        bay_no == parts[3]
        module_type == get_netbox_module_type("", model)
        bay_name == "Disk Box " \o bay_no \o " Bay " \o box
        bay0 == DictGet(L.bay_map, bay_name)
        found == DictGet(L.module_map, bay_name)
        st1 == IF bay0 = NoRecord THEN module_bays_create(st, bay_name, "disk", idx)
               ELSE st
        bay == IF bay0 = NoRecord THEN CreatedBay(st1) ELSE bay0
        bay_map == IF bay0 = NoRecord /\ ~st1.raised
                   THEN DictSet(L.bay_map, bay_name, bay) ELSE L.bay_map
        mismatch == bay0 # NoRecord /\ found # NoRecord
                      /\ ModuleType(found.mtype).model # model
        st2 == IF mismatch THEN module_delete(st1, found, "disk", idx) ELSE st1
        existing_module == IF mismatch THEN NoRecord ELSE found
    IN  IF L.st.raised THEN L
        ELSE IF pd_id \in {"None", ""} THEN [L EXCEPT !.st = st, !.idx = idx]
        ELSE IF Len(parts) < 3
        THEN [L EXCEPT !.st = Raise(st, "IndexError"), !.idx = idx]
        ELSE IF module_type = NoRecord THEN [L EXCEPT !.st = st, !.idx = idx]
        ELSE IF existing_module = NoRecord /\ bay # NoRecord
        THEN [L EXCEPT !.st = modules_create(st2, bay.id, module_type.id, "",
                                             "disk", idx),
                       !.idx = idx, !.bay_map = bay_map]
        ELSE [L EXCEPT !.st = st2, !.idx = idx, !.bay_map = bay_map]

disk_step(L, disk) ==
    LET idx == L.idx + 1
        st == Visit(L.st, "disk", idx)
        model == DropFirst(disk.Model, 8)
        pd_id == IF disk.pd_identifier \in {"None", ""} THEN disk.pd_identifier
                 ELSE Strip(disk.pd_identifier)
        parts == Split(pd_id, ":")
        box == parts[2]
        bay_no == parts[3]
        module_type == get_netbox_module_type("", model)
        bay_name == "Disk Box " \o box \o " Bay " \o bay_no
        bay0 == DictGet(L.bay_map, bay_name)
        found == DictGet(L.module_map, bay_name)
        st1 == IF bay0 = NoRecord THEN module_bays_create(st, bay_name, "disk", idx)
               ELSE st
        bay == IF bay0 = NoRecord THEN CreatedBay(st1) ELSE bay0
        bay_map == IF bay0 = NoRecord /\ ~st1.raised
                   THEN DictSet(L.bay_map, bay_name, bay) ELSE L.bay_map
        mismatch == bay0 # NoRecord /\ found # NoRecord
                      /\ ModuleType(found.mtype).model # model
        st2 == IF mismatch THEN module_delete(st1, found, "disk", idx) ELSE st1
        existing_module == IF mismatch THEN NoRecord ELSE found
    IN  IF L.st.raised THEN L
        ELSE IF pd_id \in {"None", ""} THEN [L EXCEPT !.st = st, !.idx = idx]
        ELSE IF Len(parts) < 3
        THEN [L EXCEPT !.st = Raise(st, "IndexError"), !.idx = idx]
        ELSE IF module_type = NoRecord THEN [L EXCEPT !.st = st, !.idx = idx]
        ELSE IF existing_module = NoRecord /\ bay # NoRecord
        THEN [L EXCEPT !.st = modules_create(st2, bay.id, module_type.id, "",
                                             "disk", idx),
                       !.idx = idx, !.bay_map = bay_map]
        ELSE [L EXCEPT !.st = st2, !.idx = idx, !.bay_map = bay_map]

do_netbox_disks(st, disks) ==
    IF st.raised THEN st
    ELSE ForEach(disk_step,
                 FixedLoop(st, get_netbox_module_bays(st, "Disk"),
                           get_netbox_modules(st, "Hard disk")),
                 get_hw_disks(disks), 1).st

\* a faulty variant of RaidBayName: the embedded controller keeps its slot
\* number
RaidBayName_NoOffset(slot, external) ==
    IF ~external THEN "RAID.Emb." \o slot \o ".1"
    ELSE "RAID.Slot." \o slot \o ".1"

(***************************************************************************)
(* do_netbox_raid_cards                                                    *)
(***************************************************************************)
\* the bay name of a RAID controller with a slot
RaidBayName(slot, external) ==
    IF ~external THEN "RAID.Emb." \o ToString(ParseInt(slot) + 1) \o ".1"
    ELSE "RAID.Slot." \o slot \o ".1"

raid_step(L, raid_card) ==
    LET idx == L.idx + 1
        st == Visit(L.st, "raid", idx)
        serial == raid_card.serial
        product == raid_card.product
        slot == raid_card.Slot
        external == raid_card.External
        bay_name == RaidBayName(slot, external)
        bay0 == DictGet(L.bay_map, bay_name)
        found == DictGet(L.module_map, bay_name)
        st1 == IF bay0 = NoRecord THEN module_bays_create(st, bay_name, "raid", idx)
               ELSE st
        bay == IF bay0 = NoRecord THEN CreatedBay(st1) ELSE bay0
        bay_map == IF bay0 = NoRecord /\ ~st1.raised
                   THEN DictSet(L.bay_map, bay_name, bay) ELSE L.bay_map
        mismatch == found # NoRecord /\ found.serial # serial
        st2 == IF mismatch THEN module_delete(st1, found, "raid", idx) ELSE st1
        existing_module == IF mismatch THEN NoRecord ELSE found
        module_type == get_netbox_module_type("", product)
    IN  IF L.st.raised THEN L
        ELSE IF slot = "" THEN [L EXCEPT !.st = st, !.idx = idx]
        ELSE IF ~external /\ ~IsInt(slot)
        THEN [L EXCEPT !.st = Raise(st, "ValueError"), !.idx = idx]
        ELSE IF existing_module = NoRecord /\ bay # NoRecord /\ module_type # NoRecord
        THEN [L EXCEPT !.st = modules_create(st2, bay.id, module_type.id, serial,
                                             "raid", idx),
                       !.idx = idx, !.bay_map = bay_map]
        ELSE [L EXCEPT !.st = st2, !.idx = idx, !.bay_map = bay_map]

do_netbox_raid_cards(st, raid_cards) ==
    IF st.raised THEN st
    ELSE ForEach(raid_step,
                 FixedLoop(st, get_netbox_module_bays(st, "RAID"),
                           get_netbox_modules(st, "RAID Controller")),
                 raid_cards, 1).st

(***************************************************************************)
(* do_netbox_nics                                                          *)
(***************************************************************************)
nic_module_step(L, nic) ==
    LET idx == L.idx + 1
        st == Visit(L.st, "nic", idx)
        module_type == get_netbox_module_type("", nic.model)
        bay_name == nic.module_bay
        bay0 == DictGet(L.bay_map, bay_name)
        found == DictGet(L.module_map, bay_name)
        st1 == IF bay0 = NoRecord THEN module_bays_create(st, bay_name, "nic", idx)
               ELSE st
        bay == IF bay0 = NoRecord THEN CreatedBay(st1) ELSE bay0
        bay_map == IF bay0 = NoRecord /\ ~st1.raised
                   THEN DictSet(L.bay_map, bay_name, bay) ELSE L.bay_map
        mismatch == found # NoRecord /\ found.mtype # module_type.id
        st2 == IF mismatch THEN module_delete(st1, found, "nic", idx) ELSE st1
        existing_module == IF mismatch THEN NoRecord ELSE found
    IN  IF L.st.raised THEN L
        ELSE IF module_type = NoRecord THEN [L EXCEPT !.st = st, !.idx = idx]
        ELSE IF existing_module = NoRecord /\ bay # NoRecord
        THEN [L EXCEPT !.st = modules_create(st2, bay.id, module_type.id, nic.serial,
                                             "nic", idx),
                       !.idx = idx, !.bay_map = bay_map]
        ELSE [L EXCEPT !.st = st2, !.idx = idx, !.bay_map = bay_map]

do_netbox_nics(st, manufacturer, nics) ==
    IF st.raised \/ manufacturer \notin {"HP", "HPE"} THEN st
    ELSE ForEach(nic_module_step,
                 FixedLoop(st, get_netbox_module_bays(st, "NIC"),
                           get_netbox_modules(st, "NIC")),
                 nics, 1).st

(***************************************************************************)
(* do_netbox_psus                                                          *)
(***************************************************************************)
\* set(psu.get("serial", "") for psu in psus if psu.get("serial", ""))
LocalSerials(psus) == {psus[i].serial : i \in DOMAIN psus} \ {""}

\* first loop: delete the modules whose serial is not a local serial
psu_delete_step(L, module) ==
    IF L.st.raised \/ module.serial \in L.local_serials THEN L
    ELSE [L EXCEPT !.st = module_delete(L.st, module, "psu", 0)]

\* second loop: the bays of the modules that match a local serial are used
psu_reserve_step(L, module) ==
    IF /\ ~L.st.raised
       /\ module.serial \in L.local_serials
       /\ module_bay(L.st, module) \in Range(L.psu_bays)
    THEN [L EXCEPT !.psu_bays = ListRemove(@, module_bay(L.st, module))]
    ELSE L

\* third loop: one iteration of "for psu in psus"
\* a faulty variant of psu_step: a catalog miss falls back to the first
\* module type of the catalog instead of skipping the component
psu_step_FallsBack(L, psu) ==
    LET idx == L.idx + 1
        st == Visit(L.st, "psu", idx)
        serial == psu.serial
        found == get_netbox_module_type(psu.product, "")
        module_type == IF found = NoRecord THEN ModuleTypeCatalog[1] ELSE found
        exists == \E k \in DOMAIN L.psu_modules : L.psu_modules[k].serial = serial
    IN  IF L.st.raised THEN L
        ELSE IF exists \/ L.psu_bays = <<>>
        THEN [L EXCEPT !.st = st, !.idx = idx]
        ELSE [L EXCEPT !.st = modules_create(st, Head(L.psu_bays).id, module_type.id,
                                             serial, "psu", idx),
                       !.idx = idx, !.psu_bays = Tail(@)]

psu_step(L, psu) ==
    LET idx == L.idx + 1
        st == Visit(L.st, "psu", idx)
        model == psu.product
        serial == psu.serial
        module_type == get_netbox_module_type(model, "")
        exists == \E k \in DOMAIN L.psu_modules : L.psu_modules[k].serial = serial
    IN  IF L.st.raised THEN L
        ELSE IF module_type = NoRecord \/ exists \/ L.psu_bays = <<>>
        THEN [L EXCEPT !.st = st, !.idx = idx]
        ELSE [L EXCEPT !.st = modules_create(st, Head(L.psu_bays).id, module_type.id,
                                             serial, "psu", idx),
                       !.idx = idx, !.psu_bays = Tail(@)]

\* a faulty variant of do_netbox_psus: the free bays are allocated and the
\* modules created before the stale modules are deleted
do_netbox_psus_AllocatesFirst(st, psus) ==
    LET psu_bays == get_netbox_module_bays(st, "PSU")
        psu_modules == get_netbox_modules(st, "Power supply")
        L0 == [st |-> st, psu_bays |-> psu_bays, psu_modules |-> psu_modules,
               local_serials |-> LocalSerials(psus), idx |-> 0]
        L1 == ForEach(psu_reserve_step, L0, psu_modules, 1)
        L2 == ForEach(psu_step, L1, psus, 1)
    IN  IF st.raised THEN st ELSE ForEach(psu_delete_step, L2, psu_modules, 1).st

do_netbox_psus(st, psus) ==
    LET psu_bays == get_netbox_module_bays(st, "PSU")
        psu_modules == get_netbox_modules(st, "Power supply")
        L0 == [st |-> st, psu_bays |-> psu_bays, psu_modules |-> psu_modules,
               local_serials |-> LocalSerials(psus), idx |-> 0]
        L1 == ForEach(psu_delete_step, L0, psu_modules, 1)
        L2 == ForEach(psu_reserve_step, L1, psu_modules, 1)
    IN  IF st.raised THEN st ELSE ForEach(psu_step, L2, psus, 1).st

(***************************************************************************)
(* create_or_update                                                        *)
(***************************************************************************)
create_or_update(st, hw) ==
    LET s1 == do_netbox_cpus(st, hw.cpu)
        s2 == do_netbox_memories(s1, hw.memory)
        s3 == do_netbox_disks(s2, hw.disks)
        s4 == do_netbox_raid_cards(s3, hw.raid_cards)
        s5 == do_netbox_nics(s4, hw.manufacturer, hw.nics)
    IN  do_netbox_psus(s5, hw.power)

(***************************************************************************)
(* Initial states.  One category (local.focus) is varied: its remote bays, *)
(* the modules in them and its local components are drawn from the sets    *)
(* below.  Every other category has one bay, empty, and one local          *)
(* component whose module type resolves.                                   *)
(***************************************************************************)
Categories == <<"cpu", "memory", "disk", "raid", "nic", "psu">>

BaseBayNames ==
    [cpu |-> <<"CPU 1">>, memory |-> <<"Memory 1">>, disk |-> <<"Disk Box 1 Bay 1">>,
     raid |-> <<"RAID.Emb.1.1">>, nic |-> <<"NIC.LOM.1.1">>, psu |-> <<"PSU 1">>]

BaseHw ==
    [manufacturer |-> "HP",
     cpu |-> << [product |-> "Xeon Gold 6130"] >>,
     memory |-> << [slot |-> "1", product |-> "M393A2K40"] >>,
     disks |-> << [SN |-> "D1", Model |-> "HP      MB1000GCWCV",
                   pd_identifier |-> "0:1:1"] >>,
     raid_cards |-> << [serial |-> "R1", product |-> "Smart Array P408i-a",
                        Slot |-> "0", External |-> FALSE] >>,
     nics |-> << [model |-> "Ethernet 1Gb 4-port 331i", module_bay |-> "NIC.LOM.1.1",
                  serial |-> ""] >>,
     power |-> << [product |-> "865414-B21", serial |-> "PS1"] >>]

\* the field of the local facts that holds a category's components
HwField ==
    [cpu |-> "cpu", memory |-> "memory", disk |-> "disks", raid |-> "raid_cards",
     nic |-> "nics", psu |-> "power"]

\* the bays the varied category may have remotely, in this order
FocusBayNames ==
    [cpu |-> <<"CPU 1", "CPU 2">>, memory |-> <<"Memory 1", "Memory 2">>,
     disk |-> <<"Disk Box 1 Bay 1", "Disk Box 1 Bay 2">>,
     raid |-> <<"RAID.Emb.1.1", "RAID.Slot.1.1">>,
     nic |-> <<"NIC.LOM.1.1", "NIC.Slot.2.1">>, psu |-> <<"PSU 1", "PSU 2">>]

\* the module a bay of the varied category may hold: [mtype, serial]
FocusModules ==
    [cpu |-> {[mtype |-> 1, serial |-> ""], [mtype |-> 2, serial |-> ""],
              [mtype |-> 3, serial |-> ""]},
     memory |-> {[mtype |-> 3, serial |-> ""], [mtype |-> 4, serial |-> ""]},
     disk |-> {[mtype |-> 5, serial |-> ""], [mtype |-> 6, serial |-> ""]},
     raid |-> {[mtype |-> 7, serial |-> "R1"], [mtype |-> 7, serial |-> "R2"]},
     nic |-> {[mtype |-> 8, serial |-> ""], [mtype |-> 9, serial |-> ""]},
     psu |-> {[mtype |-> 10, serial |-> "PS1"], [mtype |-> 10, serial |-> "PS2"],
              [mtype |-> 10, serial |-> ""]}]

\* the local components of the varied category
FocusLocal ==
    [cpu |-> {[product |-> "Xeon Gold 6130"], [product |-> "Xeon E5-2620 v4"],
              [product |-> "Unknown CPU"]},
     memory |-> {[slot |-> "1", product |-> "M393A2K40"],
                 [slot |-> "2", product |-> "M393A2K40"],
                 [slot |-> "2", product |-> "HMA84GR7"],
                 [slot |-> "1", product |-> "NOPART"]},
     disk |-> {[SN |-> "D1", Model |-> "HP      MB1000GCWCV", pd_identifier |-> "0:1:1"],
               [SN |-> "D2", Model |-> "HP      MO0400JEFPA", pd_identifier |-> " 0:1:2 "],
               [SN |-> "D4", Model |-> "HP      UNKNOWN", pd_identifier |-> "0:1:2"],
               [SN |-> "D3", Model |-> "HP      MB1000GCWCV", pd_identifier |-> "None"]},
     raid |-> {[serial |-> "R1", product |-> "Smart Array P408i-a", Slot |-> "0",
                External |-> FALSE],
               [serial |-> "R2", product |-> "Smart Array P408i-a", Slot |-> "1",
                External |-> TRUE],
               [serial |-> "R3", product |-> "Unknown RAID", Slot |-> "0",
                External |-> FALSE],
               [serial |-> "R4", product |-> "Smart Array P408i-a", Slot |-> "",
                External |-> FALSE]},
     nic |-> {[model |-> "Ethernet 1Gb 4-port 331i", module_bay |-> "NIC.LOM.1.1",
               serial |-> ""],
              [model |-> "Ethernet 10Gb 2-port 562SFP+", module_bay |-> "NIC.Slot.2.1",
               serial |-> ""],
              [model |-> "Ethernet 10Gb 2-port 562SFP+", module_bay |-> "NIC.LOM.1.1",
               serial |-> ""],
              [model |-> "Unknown NIC", module_bay |-> "NIC.Slot.2.1", serial |-> ""]},
     psu |-> {[product |-> "865414-B21", serial |-> "PS1"],
              [product |-> "865414-B21", serial |-> "PS2"],
              [product |-> "865414-B21", serial |-> ""],
              [product |-> "UNKNOWN", serial |-> "PS2"]}]

\* the sequences over S of length at most n
SeqUpTo(S, n) == UNION {[1..k -> S] : k \in 0..n}

\* the sub-lists of a two-element list
SubLists(names) == {<<>>, <<names[1]>>, <<names[2]>>, names}

RECURSIVE Concat(_, _)
Concat(seqs, i) == IF i > Len(seqs) THEN <<>> ELSE seqs[i] \o Concat(seqs, i + 1)

\* the bay names of the device: the varied category c has the bays fb
InitBayNames(c, fb) ==
    Concat([i \in DOMAIN Categories |->
               IF Categories[i] = c THEN fb ELSE BaseBayNames[Categories[i]]], 1)

InitBays(c, fb) ==
    LET names == InitBayNames(c, fb)
    IN  [i \in DOMAIN names |-> [id |-> i, name |-> names[i]]]

\* the module a bay of another category holds on a device reconciled before
BaseModules ==
    [cpu |-> [mtype |-> 1, serial |-> ""], memory |-> [mtype |-> 3, serial |-> ""],
     disk |-> [mtype |-> 5, serial |-> ""], raid |-> [mtype |-> 7, serial |-> "R1"],
     nic |-> [mtype |-> 8, serial |-> ""], psu |-> [mtype |-> 10, serial |-> "PS1"]]

\* occ: for each bay of fb, a module of FocusModules[c] or NoRecord;
\* fresh: the bays of the other categories are empty (a device never reconciled)
InitModules(c, fb, occ, fresh) ==
    LET bays == InitBays(c, fb)
        p == CHOOSE i \in DOMAIN Categories : Categories[i] = c
        OccOf(i) ==
            IF i < p THEN (IF fresh THEN NoRecord ELSE BaseModules[Categories[i]])
            ELSE IF i < p + Len(fb) THEN occ[i - p + 1]
            ELSE IF fresh THEN NoRecord
            ELSE BaseModules[Categories[i - Len(fb) + 1]]
        Held(i) == OccOf(i) # NoRecord
        held == SelectFrom([i \in DOMAIN bays |-> i], Held, 1)
    IN  [j \in DOMAIN held |->
            [id |-> Len(bays) + j, bay |-> bays[held[j]].id,
             mtype |-> OccOf(held[j]).mtype, serial |-> OccOf(held[j]).serial]]

InitNb(c, fb, occ, fresh) ==
    [bays |-> InitBays(c, fb), modules |-> InitModules(c, fb, occ, fresh),
     nextId |-> Len(InitBays(c, fb)) + Len(InitModules(c, fb, occ, fresh)) + 1]

InitHw(c, comps) ==
    [f \in DOMAIN BaseHw \cup {"focus"} |->
        IF f = "focus" THEN c
        ELSE IF f = HwField[c] THEN comps ELSE BaseHw[f]]

NoOp(state) ==
    [op |-> "init", calls |-> <<>>, visited |-> <<>>, raised |-> FALSE, why |-> "",
     pre |-> state]

Init ==
    \E c \in Range(Categories) :
    \E fb \in SubLists(FocusBayNames[c]) :
    \E occ \in [DOMAIN fb -> FocusModules[c] \cup {NoRecord}] :
    \E comps \in SeqUpTo(FocusLocal[c], MaxLocal) :
    \E fresh \in BOOLEAN :
        /\ nb = InitNb(c, fb, occ, fresh)
        /\ local = InitHw(c, comps)
        /\ last = NoOp(InitNb(c, fb, occ, fresh))
        /\ hist = [ops |-> <<>>, orig |-> InitNb(c, fb, occ, fresh)]

(***************************************************************************)
(* Operations.  Each is one whole method of ModuleInventory.               *)
(***************************************************************************)
\* the context of a run that starts in the current remote state
Ctx(budget) ==
    [bays |-> nb.bays, modules |-> nb.modules, nextId |-> nb.nextId,
     calls |-> <<>>, visited |-> <<>>, raised |-> FALSE, why |-> "",
     budget |-> budget]

\* the operation op ended in the context st
Finish(op, st) ==
    /\ nb' = [bays |-> st.bays, modules |-> st.modules, nextId |-> st.nextId]
    /\ last' = [op |-> op, calls |-> st.calls, visited |-> st.visited,
                raised |-> st.raised, why |-> st.why, pre |-> nb]
    /\ hist' = [hist EXCEPT !.ops = Append(@, op)]
    /\ UNCHANGED local

CanRun == Len(hist.ops) < MaxRuns

\* a category's reconciler is run on its own only for the varied category
\* and before the first whole run
CanRunAlone(c) ==
    /\ CanRun
    /\ local.focus = c
    /\ \A i \in DOMAIN hist.ops : hist.ops[i] \notin {"create_or_update", "aborted"}

\* ModuleInventory.create_or_update, no transport error
CreateOrUpdate ==
    /\ CanRun
    /\ Finish("create_or_update", create_or_update(Ctx(-1), local))

\* ModuleInventory.create_or_update, aborted by a transport error at a write
AbortedRun ==
    /\ hist.ops = <<>>
    /\ \E k \in 0..MaxAbort :
          LET st == create_or_update(Ctx(k), local)
          IN  st.why = "transport" /\ Finish("aborted", st)

DoCpus ==
    /\ CanRunAlone("cpu")
    /\ Finish("do_netbox_cpus", do_netbox_cpus(Ctx(-1), local.cpu))

DoMemories ==
    /\ CanRunAlone("memory")
    /\ Finish("do_netbox_memories", do_netbox_memories(Ctx(-1), local.memory))

DoDisks ==
    /\ CanRunAlone("disk")
    /\ Finish("do_netbox_disks", do_netbox_disks(Ctx(-1), local.disks))

DoRaidCards ==
    /\ CanRunAlone("raid")
    /\ Finish("do_netbox_raid_cards", do_netbox_raid_cards(Ctx(-1), local.raid_cards))

DoNics ==
    /\ CanRunAlone("nic")
    /\ Finish("do_netbox_nics",
              do_netbox_nics(Ctx(-1), local.manufacturer, local.nics))

DoPsus ==
    /\ CanRunAlone("psu")
    /\ Finish("do_netbox_psus", do_netbox_psus(Ctx(-1), local.power))

Next ==
    \/ CreateOrUpdate
    \/ AbortedRun
    \/ DoCpus
    \/ DoMemories
    \/ DoDisks
    \/ DoRaidCards
    \/ DoNics
    \/ DoPsus

Spec == Init /\ [][Next]_vars

(***************************************************************************)
(* Vocabulary of the properties.                                           *)
(***************************************************************************)
\* the indices of the calls of the last operation that are op
CallsOf(op) == {i \in DOMAIN last.calls : last.calls[i].op = op}

ModuleWrites == CallsOf("modules.create") \cup CallsOf("modules.delete")

InventoryWrites == ModuleWrites \cup CallsOf("module_bays.create")

\* the last operation was a whole run that ended without an exception
CompletedRun == last.op = "create_or_update" /\ ~last.raised

\* the last n operations were whole runs, none aborted
LastRunsWere(n) ==
    /\ Len(hist.ops) >= n
    /\ \A i \in DOMAIN hist.ops :
          i > Len(hist.ops) - n => hist.ops[i] = "create_or_update"

\* the name of the bay with this id in a remote state
BayNameIn(state, id) ==
    LET hits == {k \in DOMAIN state.bays : state.bays[k].id = id}
    IN  IF hits = {} THEN "None" ELSE state.bays[Min(hits)].name

\* a remote state without its ids: the bay names with their number of bays,
\* and the (bay name, module type, serial) triples with their number of modules
Content(state) ==
    LET Triple(m) == <<BayNameIn(state, m.bay), m.mtype, m.serial>>
        names == {state.bays[k].name : k \in DOMAIN state.bays}
        triples == {Triple(state.modules[k]) : k \in DOMAIN state.modules}
    IN  [bays |-> [n \in names |->
                      Cardinality({k \in DOMAIN state.bays : state.bays[k].name = n})],
         modules |-> [t \in triples |->
                      Cardinality({k \in DOMAIN state.modules :
                                      Triple(state.modules[k]) = t})]]

\* a whole run from the remote state `state`, without transport error
RunFrom(state, hw) ==
    create_or_update([bays |-> state.bays, modules |-> state.modules,
                      nextId |-> state.nextId, calls |-> <<>>, visited |-> <<>>,
                      raised |-> FALSE, why |-> "", budget |-> -1], hw)

\* the profile a category's reconciler lists its modules by
ProfileOf ==
    [cpu |-> "CPU", memory |-> "Memory", disk |-> "Hard disk",
     raid |-> "RAID Controller", nic |-> "NIC", psu |-> "Power supply"]

\* the local components of a category, as its reconciler iterates them
ComponentsOf(hw, c) ==
    IF c = "disk" THEN get_hw_disks(hw.disks)
    ELSE IF c = "nic" /\ hw.manufacturer \notin {"HP", "HPE"} THEN <<>>
    ELSE hw[HwField[c]]

\* no two local components of a category claim the same identity (two reports
\* of one memory slot, disk position, RAID slot, NIC bay or PSU serial)
Injective(seq, Key(_)) ==
    \A i, j \in DOMAIN seq : i # j => Key(seq[i]) # Key(seq[j])

DistinctSlots ==
    LET MemKey(x) == x.slot
        DiskKey(x) == Strip(x.pd_identifier)
        RaidKey(x) == <<x.Slot, x.External>>
        NicKey(x) == x.module_bay
        PsuKey(x) == x.serial
    IN  /\ Injective(local.power, PsuKey)
        /\ Injective(local.memory, MemKey)
        /\ Injective(get_hw_disks(local.disks), DiskKey)
        /\ Injective(local.raid_cards, RaidKey)
        /\ Injective(local.nics, NicKey)

\* the module type a category's reconciler resolves for a local component
ResolvedType(c, x) ==
    CASE c = "cpu" -> get_netbox_module_type(CpuPartNumber(x.product), "")
      [] c = "memory" -> get_netbox_module_type(x.product, "")
      [] c = "disk" -> get_netbox_module_type("", DropFirst(x.Model, 8))
      [] c = "raid" -> get_netbox_module_type("", x.product)
      [] c = "nic" -> get_netbox_module_type("", x.model)
      [] c = "psu" -> get_netbox_module_type(x.product, "")

\* every module type the catalog resolves for a local component has the
\* profile its category lists modules by
ProfilesMatch ==
    \A c \in Range(Categories) :
    \A i \in DOMAIN ComponentsOf(local, c) :
        LET t == ResolvedType(c, ComponentsOf(local, c)[i])
        IN  t # NoRecord => t.profile = ProfileOf[c]

\* local facts and catalog as a host and a maintained catalog give them
WellFormedFacts == DistinctSlots /\ ProfilesMatch

(***************************************************************************)
(* C1  Module idempotence: the second of two consecutive whole runs with   *)
(* the same local facts issues no module or bay create or delete call.     *)
(***************************************************************************)
C1_SecondRunIssuesNoWrite ==
    (LastRunsWere(2) /\ WellFormedFacts) => InventoryWrites = {}

\* the failing input of C1: a local PSU with an empty serial, whose module is
\* created by the first run, is deleted by the second
C1_EmptySerialPsuDeleted ==
    /\ LastRunsWere(2)
    /\ \E i \in CallsOf("modules.delete") :
          last.calls[i].cat = "psu" /\ last.calls[i].serial = ""

(***************************************************************************)
(* C3  Bay exclusivity: no two modules reference the same bay.             *)
(***************************************************************************)
BayExclusive(state) ==
    \A i, j \in DOMAIN state.modules :
        i # j => state.modules[i].bay # state.modules[j].bay

C3_BayExclusivity ==
    (BayExclusive(hist.orig) /\ WellFormedFacts) => BayExclusive(nb)

(***************************************************************************)
(* C6  PSU garbage collection: do_netbox_psus deletes every remote PSU     *)
(* module whose serial is not the serial of a local PSU, and it issues     *)
(* every delete before its first create.                                   *)
(***************************************************************************)
ObservedPsuSerials == {local.power[i].serial : i \in DOMAIN local.power}

\* the ids of the PSU modules of the pre-state whose serial is not observed
StalePsuModules ==
    {last.pre.modules[k].id : k \in
        {k \in DOMAIN last.pre.modules :
            /\ ModuleType(last.pre.modules[k].mtype).profile = "Power supply"
            /\ last.pre.modules[k].serial \notin ObservedPsuSerials}}

C6_PsuDeletesBeforeCreates ==
    (last.op = "do_netbox_psus" /\ ~last.raised) =>
        /\ StalePsuModules \subseteq
              {last.calls[i].id : i \in CallsOf("modules.delete")}
        /\ \A k \in DOMAIN nb.modules : nb.modules[k].id \notin StalePsuModules
        /\ \A i \in CallsOf("modules.delete") :
           \A j \in CallsOf("modules.create") : i < j

C6_Witness ==
    /\ last.op = "do_netbox_psus" /\ ~last.raised
    /\ StalePsuModules # {}
    /\ CallsOf("modules.delete") # {}
    /\ CallsOf("modules.create") # {}

(***************************************************************************)
(* C7  Convergence without orphans: after a whole run, every module of a   *)
(* reconciled category corresponds to a local component of that category.  *)
(***************************************************************************)
\* the category whose reconciler lists this module, "none" if there is none
CategoryOfModule(m) ==
    LET cs == {c \in Range(Categories) : ProfileOf[c] = ModuleType(m.mtype).profile}
    IN  IF cs = {} THEN "none" ELSE CHOOSE c \in cs : TRUE

\* the bay name of a local disk, "None" without a usable identifier
DiskBayName(x) ==
    LET pd_id == Strip(x.pd_identifier)
        parts == Split(pd_id, ":")
    IN  IF x.pd_identifier \in {"None", ""} \/ Len(parts) < 3 THEN "None"
        ELSE "Disk Box " \o parts[2] \o " Bay " \o parts[3]

\* the local component x of category c is what the module m records
Corresponds(state, m, c, x) ==
    LET t == ModuleType(m.mtype)
        bay_name == BayNameIn(state, m.bay)
    IN  CASE c = "cpu" -> t.part_number = CpuPartNumber(x.product)
          [] c = "memory" -> bay_name = "Memory " \o x.slot /\ t.part_number = x.product
          [] c = "disk" -> bay_name = DiskBayName(x) /\ t.model = DropFirst(x.Model, 8)
          [] c = "raid" -> m.serial = x.serial
          [] c = "nic" -> bay_name = x.module_bay /\ t.model = x.model
          [] c = "psu" -> m.serial = x.serial

\* the modules of a reconciled category that no local component accounts for
Orphans(state) ==
    {k \in DOMAIN state.modules :
        LET m == state.modules[k]
            c == CategoryOfModule(m)
        IN  /\ c # "none"
            /\ \A i \in DOMAIN ComponentsOf(local, c) :
                  ~Corresponds(state, m, c, ComponentsOf(local, c)[i])}

C7_NoOrphanAfterRun == (CompletedRun /\ WellFormedFacts) => Orphans(nb) = {}

(***************************************************************************)
(* C9  Self-healing: after a run aborted by a transport error, a whole run *)
(* ends in the remote state a single uninterrupted run from the original   *)
(* state ends in, and a third run issues no write.                         *)
(***************************************************************************)
C9_AbortedRunHeals ==
    /\ (hist.ops = <<"aborted", "create_or_update">> /\ WellFormedFacts) =>
          Content(nb) = Content(RunFrom(hist.orig, local))
    /\ (hist.ops = <<"aborted", "create_or_update", "create_or_update">>
          /\ WellFormedFacts) => InventoryWrites = {}

\* the failing input of C9: the aborted run had created the module of a PSU
\* with an empty serial, and the next run deleted it
C9_AbortedPsuDeleted ==
    /\ hist.ops = <<"aborted", "create_or_update">>
    /\ WellFormedFacts
    /\ \E i \in CallsOf("modules.delete") :
          last.calls[i].cat = "psu" /\ last.calls[i].serial = ""
    /\ Content(nb) # Content(RunFrom(hist.orig, local))

(***************************************************************************)
(* C10  Catalog miss is non-fatal and local.                               *)
(***************************************************************************)
\* the catalog has no module type for the local component x of category c
Unresolved(c, x) == ResolvedType(c, x) = NoRecord

\* the local facts without the components the catalog has no type for
WithoutUnresolved(hw) ==
    LET Keep(c) == LET Has(x) == ~Unresolved(c, x)
                   IN  SelectFrom(hw[HwField[c]], Has, 1)
    IN  [f \in DOMAIN hw |->
            IF \E c \in Range(Categories) : HwField[c] = f
            THEN Keep(CHOOSE c \in Range(Categories) : HwField[c] = f)
            ELSE hw[f]]

\* what a run did for the components the catalog has a type for, in order:
\* each write with the component it was issued for and the bay by its name
EffectsFor(calls, state, hw) ==
    LET Comp(call) == ComponentsOf(hw, call.cat)[call.idx]
        Counts(call) == call.idx > 0 /\ ~Unresolved(call.cat, Comp(call))
        kept == SelectFrom(calls, Counts, 1)
    IN  [i \in DOMAIN kept |->
            IF kept[i].op = "module_bays.create"
            THEN <<kept[i].op, kept[i].cat, Comp(kept[i]), kept[i].name>>
            ELSE <<kept[i].op, kept[i].cat, Comp(kept[i]),
                   BayNameIn(state, kept[i].bay), kept[i].mtype, kept[i].serial>>]

CpuCapacityOk(state, hw) ==
    LET n == Cardinality({k \in DOMAIN state.bays :
                             StartsWith(state.bays[k].name, "CPU")})
    IN  n > 0 /\ Len(hw.cpu) <= n

ExpectedVisits(state, hw) ==
    Concat([p \in DOMAIN Categories |->
              LET c == Categories[p]
                  comps == ComponentsOf(hw, c)
              IN  IF c = "cpu" /\ ~CpuCapacityOk(state, hw) THEN <<>>
                  ELSE [i \in DOMAIN comps |-> <<c, i>>]], 1)

TooFewCpuBays == Len(get_netbox_module_bays(last.pre, "CPU")) < Len(local.cpu)

OtherCategories == Range(Categories) \ {"cpu"}

C11_CpuCapacityAbort ==
    /\ (last.op = "do_netbox_cpus" /\ TooFewCpuBays) =>
          /\ last.calls = <<>>
          /\ last.visited = <<>>
          /\ ~last.raised
          /\ nb = last.pre
    /\ (last.op = "create_or_update" /\ TooFewCpuBays) =>
          /\ ~last.raised
          /\ \A i \in DOMAIN last.calls : last.calls[i].cat # "cpu"
          /\ \A i \in DOMAIN last.visited : last.visited[i][1] # "cpu"
          /\ \A c \in OtherCategories :
             \A i \in DOMAIN ComponentsOf(local, c) :
                <<c, i>> \in Range(last.visited)

\* a whole run with one CPU bay and two CPUs that creates modules of other
\* categories
C11_Witness ==
    /\ last.op = "create_or_update"
    /\ TooFewCpuBays
    /\ Len(get_netbox_module_bays(last.pre, "CPU")) = 1
    /\ \E i \in CallsOf("modules.create") : last.calls[i].cat = "psu"

(***************************************************************************)
(* C12  Deterministic RAID bay naming: every bay or module call that       *)
(* do_netbox_raid_cards issues for a controller with slot s names the bay  *)
(* "RAID.Emb.{s+1}.1" when the controller is not external and              *)
(* "RAID.Slot.{s}.1" when it is, slot 0 included; for a controller without *)
(* a slot no call is issued, and the controllers after it are iterated.    *)
(***************************************************************************)
\* the names the rule gives, written out for the slots of the local facts
ExpectedRaidBay ==
    [Emb |-> [s \in {"0", "1", "2"} |->
                 CASE s = "0" -> "RAID.Emb.1.1"
                   [] s = "1" -> "RAID.Emb.2.1"
                   [] s = "2" -> "RAID.Emb.3.1"],
     Slot |-> [s \in {"0", "1", "2"} |->
                 CASE s = "0" -> "RAID.Slot.0.1"
                   [] s = "1" -> "RAID.Slot.1.1"
                   [] s = "2" -> "RAID.Slot.2.1"]]

\* the bay a call of the last operation names
BayOfCall(call) ==
    IF call.op = "module_bays.create" THEN call.name
    ELSE IF call.op = "modules.delete" THEN BayNameIn(last.pre, call.bay)
    ELSE BayNameIn(nb, call.bay)

RaidCalls(idx) ==
    {i \in DOMAIN last.calls : last.calls[i].cat = "raid" /\ last.calls[i].idx = idx}

C12_RaidBayNaming ==
    last.op \in {"do_netbox_raid_cards", "create_or_update", "aborted"} =>
        /\ \A idx \in DOMAIN local.raid_cards :
              LET card == local.raid_cards[idx]
              IN  IF card.Slot = "" THEN RaidCalls(idx) = {}
                  ELSE \A i \in RaidCalls(idx) :
                          BayOfCall(last.calls[i]) =
                              IF card.External THEN ExpectedRaidBay.Slot[card.Slot]
                              ELSE ExpectedRaidBay.Emb[card.Slot]
        /\ ~last.raised =>
              \A idx \in DOMAIN local.raid_cards : <<"raid", idx>> \in Range(last.visited)

\* a controller without a slot is skipped, and the controller in slot 0 after
\* it gets its module in the bay RAID.Emb.1.1
C12_Witness ==
    /\ last.op = "do_netbox_raid_cards"
    /\ Len(local.raid_cards) = 2
    /\ local.raid_cards[1].Slot = ""
    /\ local.raid_cards[2].Slot = "0" /\ ~local.raid_cards[2].External
    /\ \E i \in RaidCalls(2) :
          /\ last.calls[i].op = "modules.create"
          /\ BayNameIn(nb, last.calls[i].bay) = "RAID.Emb.1.1"

(***************************************************************************)
(* C13  Disk bay naming: every bay or module call that do_netbox_disks     *)
(* issues for a disk with the physical identifier "ctrl:box:bay" names the *)
(* bay "Disk Box {box} Bay {bay}"; for a disk without an identifier no     *)
(* call is issued, and the disks after it are iterated.                    *)
(***************************************************************************)
\* the names the rule gives, written out for the identifiers of the local
\* facts
ExpectedDiskBay ==
    [id \in {"0:1:1", " 0:1:2 ", "0:1:2"} |->
        CASE id = "0:1:1" -> "Disk Box 1 Bay 1"
          [] id = " 0:1:2 " -> "Disk Box 1 Bay 2"
          [] id = "0:1:2" -> "Disk Box 1 Bay 2"]

DiskCalls(idx) ==
    {i \in DOMAIN last.calls : last.calls[i].cat = "disk" /\ last.calls[i].idx = idx}

C13_DiskBayNaming ==
    last.op \in {"do_netbox_disks", "create_or_update", "aborted"} =>
        /\ \A idx \in DOMAIN ComponentsOf(local, "disk") :
              LET disk == ComponentsOf(local, "disk")[idx]
              IN  IF disk.pd_identifier = "None" THEN DiskCalls(idx) = {}
                  ELSE \A i \in DiskCalls(idx) :
                          BayOfCall(last.calls[i]) = ExpectedDiskBay[disk.pd_identifier]
        /\ ~last.raised =>
              \A idx \in DOMAIN ComponentsOf(local, "disk") :
                 <<"disk", idx>> \in Range(last.visited)

\* a disk without an identifier is skipped, and the disk "0:1:2" after it gets
\* its module in the bay Disk Box 1 Bay 2
C13_Witness ==
    /\ last.op = "do_netbox_disks"
    /\ Len(ComponentsOf(local, "disk")) = 2
    /\ ComponentsOf(local, "disk")[1].pd_identifier = "None"
    /\ Strip(ComponentsOf(local, "disk")[2].pd_identifier) = "0:1:2"
    /\ \E i \in DiskCalls(2) :
          /\ last.calls[i].op = "modules.create"
          /\ BayNameIn(nb, last.calls[i].bay) = "Disk Box 1 Bay 2"

(***************************************************************************)
(* C21  Missing bay is created: for every local component of a             *)
(* fixed-identity category (memory, disk, RAID, NIC) whose bay name        *)
(* resolves, whose module type resolves and whose bay the device did not   *)
(* have, a run that completes creates the bay and afterwards a module in   *)
(* it, and ends with a bay of that name holding a module.                  *)
(***************************************************************************)
FixedCategories == {"memory", "disk", "raid", "nic"}

ReconcilerOf ==
    [cpu |-> "do_netbox_cpus", memory |-> "do_netbox_memories",
     disk |-> "do_netbox_disks", raid |-> "do_netbox_raid_cards",
     nic |-> "do_netbox_nics", psu |-> "do_netbox_psus"]

\* the last operation ran the reconciler of the category to its end
RanToEnd(c) == last.op \in {ReconcilerOf[c], "create_or_update"} /\ ~last.raised

\* the bay name a local component of a fixed-identity category resolves
\* to, "None" when it resolves to no bay
ResolvedBay(c, x) ==
    CASE c = "memory" -> "Memory " \o x.slot
      [] c = "disk" -> IF x.pd_identifier = "None" THEN "None"
                       ELSE ExpectedDiskBay[x.pd_identifier]
      [] c = "raid" -> IF x.Slot = "" THEN "None"
                       ELSE IF x.External THEN ExpectedRaidBay.Slot[x.Slot]
                       ELSE ExpectedRaidBay.Emb[x.Slot]
      [] c = "nic" -> x.module_bay

BaysNamed(state, name) == {k \in DOMAIN state.bays : state.bays[k].name = name}

ModulesIn(state, bay) == {k \in DOMAIN state.modules : state.modules[k].bay = bay}

\* the component's bay is missing before the last operation and its module
\* type resolves
MissingBay(c, x) ==
    /\ ResolvedBay(c, x) # "None"
    /\ ResolvedType(c, x) # NoRecord
    /\ BaysNamed(last.pre, ResolvedBay(c, x)) = {}

BayThenModule(name) ==
    /\ \E i \in CallsOf("module_bays.create") : \E j \in CallsOf("modules.create") :
          /\ last.calls[i].name = name
          /\ last.calls[j].bay = last.calls[i].id
          /\ i < j
    /\ \E k \in BaysNamed(nb, name) : ModulesIn(nb, nb.bays[k].id) # {}

C21_MissingBayCreated ==
    \A c \in FixedCategories :
        RanToEnd(c) =>
            \A i \in DOMAIN ComponentsOf(local, c) :
                MissingBay(c, ComponentsOf(local, c)[i]) =>
                    BayThenModule(ResolvedBay(c, ComponentsOf(local, c)[i]))

(***************************************************************************)
(* C22  Mismatch always deletes: for every local component of a            *)
(* fixed-identity category whose bay held, before a run that completes, a  *)
(* module with another identity (serial for RAID, model for disk, part     *)
(* number for memory, module type for NIC), that module is deleted in the  *)
(* run, whether or not the component's module type resolves, and before    *)
(* any module is created in the bay.                                       *)
(***************************************************************************)
\* the module m has another identity than the local component x
IdentityDiffers(c, x, m) ==
    CASE c = "memory" -> ModuleType(m.mtype).part_number # x.product
      [] c = "disk" -> ModuleType(m.mtype).model # DropFirst(x.Model, 8)
      [] c = "raid" -> m.serial # x.serial
      [] c = "nic" -> ResolvedType(c, x) = NoRecord \/ m.mtype # ResolvedType(c, x).id

\* the modules that, before the last operation, were in a bay of the name
\* the component resolves to and had another identity
Mismatched(c, x) ==
    {k \in DOMAIN last.pre.modules :
        /\ ResolvedBay(c, x) # "None"
        /\ BayNameIn(last.pre, last.pre.modules[k].bay) = ResolvedBay(c, x)
        /\ IdentityDiffers(c, x, last.pre.modules[k])}

DeletedFirst(m) ==
    \E i \in CallsOf("modules.delete") :
        /\ last.calls[i].id = m.id
        /\ \A j \in CallsOf("modules.create") : last.calls[j].bay = m.bay => i < j

C22_MismatchDeletes ==
    \A c \in FixedCategories :
        RanToEnd(c) =>
            \A i \in DOMAIN ComponentsOf(local, c) :
                \A k \in Mismatched(c, ComponentsOf(local, c)[i]) :
                    DeletedFirst(last.pre.modules[k])

(***************************************************************************)
(* C23  Modules are never patched or moved: every remote call of every     *)
(* operation is a module create, a module delete or a bay create (none on  *)
(* a module type); a module held before and after an operation has the     *)
(* bay, module type and serial it had; a module held only before was       *)
(* deleted by a call, a module held only after was created by a call with  *)
(* its bay, module type and serial.                                        *)
(***************************************************************************)
ModuleIn(state, id) == \E k \in DOMAIN state.modules : state.modules[k].id = id

MatchedPsuModules ==
    {k \in DOMAIN last.pre.modules :
        /\ ModuleType(last.pre.modules[k].mtype).profile = "Power supply"
        /\ last.pre.modules[k].serial \in ObservedPsuSerials}

PsuHadModule(psu) ==
    \E k \in MatchedPsuModules : last.pre.modules[k].serial = psu.serial

\* the PSU bays that held no module matching a local PSU
FreePsuBays ==
    {k \in DOMAIN last.pre.bays :
        /\ StartsWith(last.pre.bays[k].name, "PSU")
        /\ \A m \in MatchedPsuModules : last.pre.modules[m].bay # last.pre.bays[k].id}

\* the local PSUs that need a bay, and whether one is left for the i-th
NeedsBay(i) ==
    /\ ResolvedType("psu", local.power[i]) # NoRecord
    /\ ~PsuHadModule(local.power[i])

BayLeftFor(i) ==
    /\ NeedsBay(i)
    /\ Cardinality({j \in 1..i : NeedsBay(j)}) <= Cardinality(FreePsuBays)

AloneInBay(state, m) == \A k \in DOMAIN state.modules :
                            state.modules[k].bay = m.bay => state.modules[k].id = m.id

C24_PsuConvergence ==
    RanToEnd("psu") =>
        /\ \A i \in DOMAIN local.power :
              (/\ ResolvedType("psu", local.power[i]) # NoRecord
               /\ PsuHadModule(local.power[i]) \/ BayLeftFor(i))
              => \E k \in DOMAIN nb.modules :
                    /\ nb.modules[k].serial = local.power[i].serial
                    /\ AloneInBay(nb, nb.modules[k])
        /\ \A k \in MatchedPsuModules :
              /\ ModuleIn(nb, last.pre.modules[k].id)
              /\ \A i \in CallsOf("modules.create") :
                    last.calls[i].bay # last.pre.modules[k].bay

(***************************************************************************)
(* C25  CPU one-to-one matching: do_netbox_cpus deletes and changes no     *)
(* module; with k local CPUs of the part number P, j < k CPU modules of    *)
(* that part before it, a module type for P and at least as many CPU bays  *)
(* as local CPUs, it creates exactly k - j modules of that type; the       *)
(* modules it creates are in distinct bays, in the order of the bay list,  *)
(* none in the bay of a module that satisfies a local CPU.                 *)
(***************************************************************************)
CpuParts == {CpuPartNumber(local.cpu[i].product) : i \in DOMAIN local.cpu}

LocalCpusOf(P) == {i \in DOMAIN local.cpu : CpuPartNumber(local.cpu[i].product) = P}

\* the CPU modules of the part number P before the last operation
CpuModulesOf(P) ==
    {k \in DOMAIN last.pre.modules :
        /\ ModuleType(last.pre.modules[k].mtype).profile = "CPU"
        /\ ModuleType(last.pre.modules[k].mtype).part_number = P}

CpuBaysBefore == {k \in DOMAIN last.pre.bays : StartsWith(last.pre.bays[k].name, "CPU")}

\* the modules that satisfy a local CPU: of each part number, as many of the
\* first modules as there are local CPUs of that part
MatchedCpuModules ==
    UNION {{k \in CpuModulesOf(P) :
               Cardinality({m \in CpuModulesOf(P) : m <= k})
                  <= Cardinality(LocalCpusOf(P))} : P \in CpuParts}

\* the position in the bay list of the bay with the id
BayPosition(id) == Min({k \in DOMAIN last.pre.bays : last.pre.bays[k].id = id})

C25_CpuOneToOne ==
    last.op = "do_netbox_cpus" =>
        /\ CallsOf("modules.delete") = {}
        /\ \A k \in DOMAIN last.pre.modules :
              \E j \in DOMAIN nb.modules : nb.modules[j] = last.pre.modules[k]
        /\ \A P \in CpuParts :
              (/\ Cardinality(CpuModulesOf(P)) < Cardinality(LocalCpusOf(P))
               /\ get_netbox_module_type(P, "") # NoRecord
               /\ Cardinality(CpuBaysBefore) >= Len(local.cpu))
              => Cardinality({i \in CallsOf("modules.create") :
                                 last.calls[i].mtype = get_netbox_module_type(P, "").id})
                   = Cardinality(LocalCpusOf(P)) - Cardinality(CpuModulesOf(P))
        /\ \A i, j \in CallsOf("modules.create") :
              i < j => BayPosition(last.calls[i].bay) < BayPosition(last.calls[j].bay)
        /\ \A i \in CallsOf("modules.create") : \A k \in MatchedCpuModules :
              last.calls[i].bay # last.pre.modules[k].bay

\* the prefix each category that creates bays lists its bays by
BayPrefix == [raid |-> "RAID", disk |-> "Disk", nic |-> "NIC"]

BayCreations == CallsOf("module_bays.create")

\* C34  Bay names are unique per device across runs: every bay an operation
\* creates is created by the RAID, disk or NIC reconciler with a name that
\* begins with the prefix the reconciler lists its bays by, and after any
\* sequence of operations no two bays of the device have the same name.
C34_BayNamesUnique ==
    /\ \A i \in BayCreations :
          /\ last.calls[i].cat \in DOMAIN BayPrefix
          /\ StartsWith(last.calls[i].name, BayPrefix[last.calls[i].cat])
    /\ \A i, j \in DOMAIN nb.bays : nb.bays[i].name = nb.bays[j].name => i = j

\* a bay was created in an earlier operation, and the last operation, which
\* needed it again, found it and created none
C34_Witness ==
    /\ Len(hist.ops) >= 2
    /\ ~last.raised
    /\ BayCreations = {}
    /\ Len(last.pre.bays) > Len(hist.orig.bays)
    /\ \E k \in DOMAIN last.pre.bays :
          /\ \A j \in DOMAIN hist.orig.bays : hist.orig.bays[j].id # last.pre.bays[k].id
          /\ ModulesIn(nb, last.pre.bays[k].id) # {}
          /\ last.op = "create_or_update"

\* the modules an operation created in the bay for a fixed-identity category
CreatedIn(bay) ==
    {i \in CallsOf("modules.create") :
        last.calls[i].bay = bay /\ last.calls[i].cat \in FixedCategories}

\* C39  One module created per bay per run: in one operation the RAID, disk,
\* memory and NIC reconcilers together create at most one module in any bay.
C39_OneModulePerBayPerRun ==
    \A i \in CallsOf("modules.create") : Cardinality(CreatedIn(last.calls[i].bay)) <= 1

\* every operation so far was the same reconciler, run without an exception
SameReconcilerAgain ==
    /\ Len(hist.ops) >= 2
    /\ ~last.raised
    /\ \A i \in DOMAIN hist.ops :
          hist.ops[i] = last.op /\ hist.ops[i] # "aborted"

\* the modules an earlier operation created and the last operation found
CreatedEarlier ==
    {k \in DOMAIN last.pre.modules :
        \A j \in DOMAIN hist.orig.modules :
            hist.orig.modules[j].id # last.pre.modules[k].id}

\* C40  Created modules are seen by the next run: when a reconciler runs again
\* after a run of the same reconciler, it creates no module in a bay holding a
\* module the earlier run created, whatever the profile of the module type
\* the catalog lookup returned for it.
C40_CreatedModulesSeen ==
    SameReconcilerAgain =>
        \A k \in CreatedEarlier : \A i \in CallsOf("modules.create") :
            last.calls[i].bay # last.pre.modules[k].bay

(***************************************************************************)
(* The NICs an HP host reports (vendors/hp.py, HPHost.get_network_cards),  *)
(* and do_netbox_nics on what it returns.  local.dmi is the list of the    *)
(* correlation records (dmidecode type 203) of the host.                   *)
(***************************************************************************)
MaxCorr == 2        \* correlation records of the host

\* str.endswith
EndsWith(s, p) == Len(s) >= Len(p) /\ SubSeq(s, Len(s) - Len(p) + 1, Len(s)) = p

IsAlnum(s) == s # "" /\ \A i \in 1..Len(s) : CharAt(s, i) \in Digits \cup Letters

\* re.match(r"NIC\.([a-zA-Z0-9]+)\.(\d+)\.(\d+)", name): the pattern is
\* matched at the start of the name, whatever follows it
NicMatch(name) ==
    LET parts == Split(name, ".")
    IN  /\ Len(parts) >= 4
        /\ parts[1] = "NIC"
        /\ IsAlnum(parts[2])
        /\ IsInt(parts[3])
        /\ CharAt(parts[4], 1) \in Digits

\* the nic get_network_cards builds for one correlation record; serial is
\* what do_netbox_nics reads with nic.get("serial", "")
NicCard(corr_device) ==
    LET structured_name == corr_device.structured_name
        parts == Split(structured_name, ".")
        match == NicMatch(structured_name)
        model0 == corr_device.device_name
        model1 == IF EndsWith(model0, " - NIC")
                  THEN SubSeq(model0, 1, Len(model0) - 6) ELSE model0
        model == IF StartsWith(model1, "HPE ") THEN DropFirst(model1, 4) ELSE model1
    IN  [model |-> model, location |-> corr_device.device_location,
         module_bay |-> IF match THEN "NIC." \o parts[2] \o "." \o parts[3] \o ".1"
                        ELSE structured_name,
         position |-> IF match THEN parts[3] ELSE "", serial |-> ""]

hp_nic_step(nics, corr_device) ==
    IF ~StartsWith(corr_device.structured_name, "NIC") THEN nics
    ELSE IF \E i \in DOMAIN nics : nics[i].module_bay = NicCard(corr_device).module_bay
    THEN nics
    ELSE Append(nics, NicCard(corr_device))

get_network_cards(correlation_devices) ==
    ForEach(hp_nic_step, <<>>, correlation_devices, 1)

StructuredNames ==
    {"NIC.LOM.1.1", "NIC.LOM.1.2", "NIC.Slot.2.1", "NIC.Slot.2.12", "NIC.Embedded",
     "NIC.LOM.1.2.3", "PCI.Slot.3.1"}

DeviceNames == {"HPE Ethernet 1Gb 4-port 331i - NIC", "Ethernet 10Gb 2-port 562SFP+"}

CorrelationDevices ==
    [structured_name : StructuredNames, device_name : DeviceNames,
     device_location : {"Embedded"}]

InitHp ==
    \E dmi \in SeqUpTo(CorrelationDevices, MaxCorr) :
        /\ nb = [bays |-> <<>>, modules |-> <<>>, nextId |-> 1]
        /\ local = [dmi |-> dmi, manufacturer |-> "HPE"]
        /\ last = [op |-> "init", calls |-> <<>>, visited |-> <<>>, raised |-> FALSE,
                   why |-> "", pre |-> [bays |-> <<>>, modules |-> <<>>, nextId |-> 1],
                   ret |-> <<>>]
        /\ hist = [ops |-> <<>>]

\* HPHost.get_network_cards
GetNetworkCards ==
    /\ hist.ops = <<>>
    /\ last' = [last EXCEPT !.op = "get_network_cards",
                            !.ret = get_network_cards(local.dmi)]
    /\ hist' = [ops |-> <<"get_network_cards">>]
    /\ UNCHANGED <<nb, local>>

\* do_netbox_nics on the list get_network_cards returned
HpDoNics ==
    /\ hist.ops = <<"get_network_cards">>
    /\ Finish("do_netbox_nics", do_netbox_nics(Ctx(-1), local.manufacturer, last.ret))

NextHp ==
    \/ GetNetworkCards
    \/ HpDoNics

SpecHp == InitHp /\ [][NextHp]_vars

\* the name is NIC.<kind>.<n>.<k> and nothing else
WholeForm(name) ==
    LET parts == Split(name, ".")
    IN  /\ Len(parts) = 4
        /\ parts[1] = "NIC"
        /\ IsAlnum(parts[2])
        /\ IsInt(parts[3])
        /\ IsInt(parts[4])

\* the bay name of a structured name: the last number replaced by 1 for a
\* name of the form NIC.<kind>.<n>.<k>, the name itself otherwise
CardBay(name) ==
    IF WholeForm(name)
    THEN "NIC." \o Split(name, ".")[2] \o "." \o Split(name, ".")[3] \o ".1"
    ELSE name

NicRecords == {k \in DOMAIN local.dmi : StartsWith(local.dmi[k].structured_name, "NIC")}

FirstOfBay(bay) ==
    Min({k \in NicRecords : CardBay(local.dmi[k].structured_name) = bay})

\* C32  NIC-as-module bay names: get_network_cards gives every structured name
\* NIC.<kind>.<n>.<k> the bay name NIC.<kind>.<n>.1 and every other name of a
\* NIC itself; its list has one entry per bay name, that of the first record
\* of the bay; and do_netbox_nics on the list makes one bay and one module
\* per bay name.
C32_NicBayNames ==
    /\ last.op = "get_network_cards" =>
          /\ {last.ret[i].module_bay : i \in DOMAIN last.ret}
                = {CardBay(local.dmi[k].structured_name) : k \in NicRecords}
          /\ \A i, j \in DOMAIN last.ret :
                last.ret[i].module_bay = last.ret[j].module_bay => i = j
          /\ \A i \in DOMAIN last.ret :
                LET bay == last.ret[i].module_bay
                IN  bay \in {CardBay(local.dmi[k].structured_name) : k \in NicRecords}
                      => last.ret[i].model = NicCard(local.dmi[FirstOfBay(bay)]).model
    /\ (last.op = "do_netbox_nics" /\ ~last.raised) =>
          /\ {nb.bays[i].name : i \in DOMAIN nb.bays}
                = {CardBay(local.dmi[k].structured_name) : k \in NicRecords}
          /\ \A i, j \in DOMAIN nb.bays : nb.bays[i].name = nb.bays[j].name => i = j
          /\ \A i \in DOMAIN nb.bays :
                Cardinality({m \in DOMAIN nb.modules :
                                nb.modules[m].bay = nb.bays[i].id}) = 1

(***************************************************************************)
(* The network reconciler (network.py).  The remote keeps interfaces,      *)
(* VLANs, IP addresses, MAC objects and cables; a reference to no object   *)
(* is the id 0, an absent string is "None", an absent number is 0.         *)
(***************************************************************************)
\* the device the agent runs on, the switch it is cabled to, another server
Dev == 1
Switch == 2
Other == 3

RECURSIVE ReplaceStr(_, _, _)
\* str.replace
ReplaceStr(s, pat, rep) ==
    IF Len(s) < Len(pat) \/ pat = "" THEN s
    ELSE IF StartsWith(s, pat) THEN rep \o ReplaceStr(DropFirst(s, Len(pat)), pat, rep)
    ELSE CharAt(s, 1) \o ReplaceStr(DropFirst(s, 1), pat, rep)

\* the element of a remote collection with this id, NoRecord without one
ById(seq, id) ==
    LET hits == {k \in DOMAIN seq : seq[k].id = id}
    IN  IF hits = {} THEN NoRecord ELSE seq[Min(hits)]

\* the collection with the element of this id replaced by Change(element)
Patch(seq, id, Change(_)) ==
    [k \in DOMAIN seq |-> IF seq[k].id = id THEN Change(seq[k]) ELSE seq[k]]

\* a remote call that writes: it fails on a transport error, is counted, and
\* is logged with what it wrote
NetWrite(st, call, ifaces, vlans, ips, macs, cables, ret) ==
    IF st.raised THEN st
    ELSE IF TransportFails(st) THEN Raise(st, "transport")
    ELSE [Spend(st) EXCEPT !.ifaces = ifaces, !.vlans = vlans, !.ips = ips,
                           !.macs = macs, !.cables = cables,
                           !.nextId = IF call.op \in {"interfaces.create",
                                          "vlans.create", "ip_addresses.create",
                                          "mac_addresses.create", "cables.create"}
                                      THEN @ + 1 ELSE @,
                           !.calls = Append(@, call), !.ret = ret]

\* nb.ipam.vlans.create(name, vid)
vlans_create(st, vid) ==
    LET vlan == [id |-> st.nextId, vid |-> vid, name |-> "VLAN " \o ToString(vid)]
    IN  NetWrite(st, [op |-> "vlans.create", id |-> vlan.id, vid |-> vid],
                 st.ifaces, Append(st.vlans, vlan), st.ips, st.macs, st.cables, vlan)

\* nb_net.interfaces.create(**params): the fields not given take the defaults
interfaces_create(st, params) ==
    LET interface ==
            [id |-> st.nextId, device |-> params.device, name |-> params.name,
             type |-> params.type, mgmt_only |-> params.mgmt_only,
             mac_address |-> params.mac_address, mtu |-> params.mtu,
             enabled |-> params.enabled, mode |-> "None", tagged_vlans |-> <<>>,
             untagged_vlan |-> 0, lag |-> 0, bridge |-> 0, cable |-> 0,
             duplex |-> "None", speed |-> 0]
    IN  NetWrite(st, [op |-> "interfaces.create", id |-> interface.id,
                      name |-> interface.name],
                 Append(st.ifaces, interface), st.vlans, st.ips, st.macs, st.cables,
                 interface)

\* the fields save() sends: those set to another value since the object was
\* fetched (or returned by create)
ChangedFields(interface, fetched) ==
    {f \in DOMAIN interface : interface[f] # fetched[f]}

\* interface.save(): a PATCH of the changed fields, no request without one
interface_save(st, interface, fetched) ==
    LET changed == ChangedFields(interface, fetched)
        Change(held) == [f \in DOMAIN held |->
                            IF f \in changed THEN interface[f] ELSE held[f]]
    IN  IF st.raised \/ changed = {} THEN st
        ELSE NetWrite(st, [op |-> "interfaces.update", id |-> interface.id,
                           fields |-> changed],
                      Patch(st.ifaces, interface.id, Change), st.vlans, st.ips,
                      st.macs, st.cables, interface)

\* nic.delete(): the remote drops the interface with its MAC objects and
\* cable, and clears the references other objects hold to it
interface_delete(st, interface) ==
    LET Keep(x) == x.id # interface.id
        KeepMac(m) == m.iface # interface.id
        KeepCable(c) == c.a # interface.id /\ c.b # interface.id
        Unlink(x) == [x EXCEPT !.lag = IF @ = interface.id THEN 0 ELSE @,
                               !.bridge = IF @ = interface.id THEN 0 ELSE @,
                               !.cable = IF @ = interface.cable THEN 0 ELSE @]
        Unassign(ip) == [ip EXCEPT !.iface = IF @ = interface.id THEN 0 ELSE @]
        rest == SelectFrom(st.ifaces, Keep, 1)
    IN  NetWrite(st, [op |-> "interfaces.delete", id |-> interface.id,
                      name |-> interface.name],
                 [k \in DOMAIN rest |-> Unlink(rest[k])], st.vlans,
                 [k \in DOMAIN st.ips |-> Unassign(st.ips[k])],
                 SelectFrom(st.macs, KeepMac, 1), SelectFrom(st.cables, KeepCable, 1),
                 NoRecord)

\* nb_net.mac_addresses.create(mac_address, assigned_object_id)
mac_addresses_create(st, mac, iface) ==
    LET nb_mac == [id |-> st.nextId, mac_address |-> mac, iface |-> iface]
    IN  NetWrite(st, [op |-> "mac_addresses.create", id |-> nb_mac.id, mac |-> mac],
                 st.ifaces, st.vlans, st.ips, Append(st.macs, nb_mac), st.cables,
                 nb_mac)

\* nb_mac.delete()
mac_delete(st, nb_mac) ==
    LET Keep(m) == m.id # nb_mac.id
    IN  NetWrite(st, [op |-> "mac_addresses.delete", id |-> nb_mac.id,
                      mac |-> nb_mac.mac_address],
                 st.ifaces, st.vlans, st.ips, SelectFrom(st.macs, Keep, 1),
                 st.cables, NoRecord)

\* nb.dcim.cables.create(a_terminations, b_terminations): both ends then
\* show the cable
cables_create(st, a, b) ==
    LET cable == [id |-> st.nextId, a |-> a, b |-> b]
        Plug(x) == IF x.id \in {a, b} THEN [x EXCEPT !.cable = cable.id] ELSE x
    IN  NetWrite(st, [op |-> "cables.create", id |-> cable.id, a |-> a, b |-> b],
                 [k \in DOMAIN st.ifaces |-> Plug(st.ifaces[k])], st.vlans, st.ips,
                 st.macs, Append(st.cables, cable), cable)

\* cable.delete()
cable_delete(st, cable) ==
    LET Keep(c) == c.id # cable.id
        Unplug(x) == IF x.cable = cable.id THEN [x EXCEPT !.cable = 0] ELSE x
    IN  NetWrite(st, [op |-> "cables.delete", id |-> cable.id],
                 [k \in DOMAIN st.ifaces |-> Unplug(st.ifaces[k])], st.vlans, st.ips,
                 st.macs, SelectFrom(st.cables, Keep, 1), NoRecord)

\* nb.ipam.ip_addresses.create(address, status, role, assigned_object_id)
ip_addresses_create(st, address, role, iface) ==
    LET netbox_ip == [id |-> st.nextId, address |-> address, role |-> role,
                      iface |-> iface]
    IN  NetWrite(st, [op |-> "ip_addresses.create", id |-> netbox_ip.id,
                      address |-> address, role |-> role, iface |-> iface],
                 st.ifaces, st.vlans, Append(st.ips, netbox_ip), st.macs, st.cables,
                 netbox_ip)

\* netbox_ip.save(): a PATCH of the assignment when it was changed
ip_save(st, netbox_ip, fetched) ==
    LET Change(held) == [held EXCEPT !.iface = netbox_ip.iface]
    IN  IF st.raised \/ netbox_ip = fetched THEN st
        ELSE NetWrite(st, [op |-> "ip_addresses.update", id |-> netbox_ip.id,
                           address |-> netbox_ip.address, iface |-> netbox_ip.iface],
                      st.ifaces, st.vlans, Patch(st.ips, netbox_ip.id, Change),
                      st.macs, st.cables, netbox_ip)

\* Endpoint.get(**filter) with these matches: None without a match, the
\* object with one match, ValueError with several
GetOne(st, hits) ==
    IF st.raised THEN st
    ELSE IF Len(hits) = 0 THEN [st EXCEPT !.ret = NoRecord]
    ELSE IF Len(hits) = 1 THEN [st EXCEPT !.ret = hits[1]]
    ELSE Raise(st, "ValueError")

\* the interfaces of a device the remote lists for mac_address=mac: by the
\* MAC objects where the remote has them, by the field otherwise
HasMac(st, interface, mac) ==
    IF st.cfg.mac_objects
    THEN \E k \in DOMAIN st.macs :
            st.macs[k].iface = interface.id /\ st.macs[k].mac_address = mac
    ELSE interface.mac_address = mac

get_netbox_network_card(st, nic) ==
    LET ByMac(x) == x.device = Dev /\ HasMac(st, x, nic.mac)
        ByName(x) == x.device = Dev /\ x.name = nic.name
    IN  IF st.cfg.nic_id = "mac" /\ nic.mac # "None"
        THEN GetOne(st, SelectFrom(st.ifaces, ByMac, 1))
        ELSE GetOne(st, SelectFrom(st.ifaces, ByName, 1))

get_netbox_network_cards(st) ==
    LET OfDevice(x) == x.device = Dev
    IN  SelectFrom(st.ifaces, OfDevice, 1)

\* the value the remote's choices give each display name
InterfaceType ==
    [Virtual |-> "virtual", LAG |-> "lag", Bridge |-> "bridge", Other |-> "other",
     SFPP10GE |-> "10gbase-x-sfpp", T10GE |-> "10gbase-t",
     SFP28 |-> "25gbase-x-sfp28", T5GE |-> "5gbase-t", T2500 |-> "2.5gbase-t",
     SFP1GE |-> "1000base-x-sfp", T1GE |-> "1000base-t"]

\* a variant that does not fall back to the current speed
netbox_type_for_nic_NoFallback(network_type, nic) ==
    LET max_speed == nic.ethtool.max_speed
        optical == nic.ethtool.port \in {"FIBRE", "Direct Attach Copper"}
    IN  IF network_type = "virtualmachine" THEN InterfaceType.Virtual
        ELSE IF nic.bonding THEN InterfaceType.LAG
        ELSE IF nic.bridge THEN InterfaceType.Bridge
        ELSE IF nic.virtual THEN InterfaceType.Virtual
        ELSE IF nic.ethtool = NoRecord THEN InterfaceType.Other
        ELSE IF max_speed = "10000Mb/s"
        THEN (IF optical THEN InterfaceType.SFPP10GE ELSE InterfaceType.T10GE)
        ELSE IF max_speed = "25000Mb/s" /\ optical THEN InterfaceType.SFP28
        ELSE IF max_speed = "5000Mb/s" THEN InterfaceType.T5GE
        ELSE IF max_speed = "2500Mb/s" THEN InterfaceType.T2500
        ELSE IF max_speed = "1000Mb/s"
        THEN (IF optical THEN InterfaceType.SFP1GE ELSE InterfaceType.T1GE)
        ELSE InterfaceType.Other

\* Network.get_netbox_type_for_nic(nic), for the value get_network_type() gives
netbox_type_for_nic(network_type, nic) ==
    LET max_speed == IF nic.ethtool.max_speed = "-" THEN nic.ethtool.speed
                     ELSE nic.ethtool.max_speed
        optical == nic.ethtool.port \in {"FIBRE", "Direct Attach Copper"}
    IN  IF network_type = "virtualmachine" THEN InterfaceType.Virtual
        ELSE IF nic.bonding THEN InterfaceType.LAG
        ELSE IF nic.bridge THEN InterfaceType.Bridge
        ELSE IF nic.virtual THEN InterfaceType.Virtual
        ELSE IF nic.ethtool = NoRecord THEN InterfaceType.Other
        ELSE IF max_speed = "10000Mb/s"
        THEN (IF optical THEN InterfaceType.SFPP10GE ELSE InterfaceType.T10GE)
        ELSE IF max_speed = "25000Mb/s" /\ optical THEN InterfaceType.SFP28
        ELSE IF max_speed = "5000Mb/s" THEN InterfaceType.T5GE
        ELSE IF max_speed = "2500Mb/s" THEN InterfaceType.T2500
        ELSE IF max_speed = "1000Mb/s"
        THEN (IF optical THEN InterfaceType.SFP1GE ELSE InterfaceType.T1GE)
        ELSE InterfaceType.Other

\* ServerNetwork.get_network_type()
ServerNetworkType == "server"

\* get_netbox_type_for_nic(nic) of a ServerNetwork
get_netbox_type_for_nic(nic) == netbox_type_for_nic(ServerNetworkType, nic)

\* a variant that creates the VLAN without looking it up
get_or_create_vlan_AlwaysCreates(st, vlan_id) ==
    IF st.raised THEN st ELSE vlans_create(st, vlan_id)

\* nb.ipam.vlans.get(vid=vlan_id), created when there is none
get_or_create_vlan(st, vlan_id) ==
    LET HasVid(v) == v.vid = vlan_id
        got == GetOne(st, SelectFrom(st.vlans, HasVid, 1))
    IN  IF got.raised THEN got
        ELSE IF got.ret = NoRecord THEN vlans_create(got, vlan_id)
        ELSE got

\* a local VLAN tag as scan() and get_ipmi() give it: "[]" without a VLAN
\* interface, "None" for the IPMI interface without one, else the number
Truthy(vlan) == vlan \notin {"[]", "None", "0"}

\* the VLANs link-layer discovery reports for a port: known is FALSE when the
\* port has no neighbour (None); vlans lists (vid, flags) in report order
NoLldpVlan == [known |-> FALSE, vlans |-> <<>>]

get_switch_vlan(st, nic) == IF st.cfg.lldp THEN nic.lldp_vlan ELSE NoLldpVlan

VidOf(st, vlan) == ById(st.vlans, vlan).vid

reset_vlan_on_interface(st0, nic, interface0) ==
    LET vlan_id == nic.vlan
        lldp_vlan == get_switch_vlan(st0, nic)
        HasId(x) == x.id = interface0.id
        st == GetOne(st0, SelectFrom(st0.ifaces, HasId, 1))
        interface == st.ret
        HasPvid(e) == e.pvid
        pvid_vlan == SelectFrom(lldp_vlan.vlans, HasPvid, 1)
        Done(s, update, i) ==
            IF s.raised THEN s
            ELSE [s EXCEPT !.ret = [update |-> update, interface |-> i,
                                    fetched |-> interface]]
    IN  IF st.raised THEN st
        ELSE IF interface = NoRecord THEN Raise(st, "AttributeError")
        ELSE IF /\ vlan_id = "None"
                /\ ~lldp_vlan.known
                /\ (interface.mode # "None" \/ Len(interface.tagged_vlans) > 0)
        THEN Done(st, TRUE, [interface EXCEPT !.mode = "None", !.tagged_vlans = <<>>,
                                              !.untagged_vlan = 0])
        ELSE IF /\ Truthy(vlan_id)
                /\ \/ interface.mode = "None"
                   \/ interface.mode = "access"
                   \/ Len(interface.tagged_vlans) # 1
                   \/ VidOf(st, interface.tagged_vlans[1]) # ParseInt(vlan_id)
        THEN LET got == get_or_create_vlan(st, ParseInt(vlan_id))
             IN  Done(got, TRUE,
                      [interface EXCEPT !.mode = "tagged",
                                        !.tagged_vlans = <<got.ret.id>>,
                                        !.untagged_vlan = 0])
        ELSE IF lldp_vlan.known /\ Len(lldp_vlan.vlans) > 0
        THEN IF /\ Len(pvid_vlan) > 0
                /\ \/ interface.mode = "None"
                   \/ interface.mode # "access"
                   \/ interface.untagged_vlan = 0
                   \/ VidOf(st, interface.untagged_vlan) # pvid_vlan[1].vid
             THEN LET got == get_or_create_vlan(st, pvid_vlan[1].vid)
                  IN  Done(got, TRUE,
                           [interface EXCEPT !.mode = "access",
                                             !.untagged_vlan = got.ret.id])
             ELSE Done(st, FALSE, interface)
        ELSE Done(st, FALSE, interface)

\* update_interface_macs(nic, macs): macs is the one local MAC
update_interface_macs(st, interface, mac) ==
    LET Assigned(m) == m.iface = interface.id
        nb_macs == SelectFrom(st.macs, Assigned, 1)
        Clean(s, nb_mac) == IF nb_mac.mac_address # mac THEN mac_delete(s, nb_mac) ELSE s
        cleaned == ForEach(Clean, st, nb_macs, 1)
    IN  IF st.raised THEN st
        ELSE IF \A k \in DOMAIN nb_macs : nb_macs[k].mac_address # mac
        THEN mac_addresses_create(cleaned, mac, interface.id)
        ELSE cleaned

\* the remote's address filter: with the mask when the query has one
AddressMatches(address, q) ==
    IF \E i \in 1..Len(q) : CharAt(q, i) = "/" THEN address = q
    ELSE Split(address, "/")[1] = q

\* connect_interface_to_switch: the result is the interface object, with the
\* new cable when one was created
connect_interface_to_switch(st0, switch_ip, switch_interface, nb_server_interface) ==
    LET HasAddress(ip) == AddressMatches(ip.address, switch_ip)
        st1 == GetOne(st0, SelectFrom(st0.ips, HasAddress, 1))
        nb_mgmt_ip == st1.ret
        nb_switch == ById(st1.ifaces, nb_mgmt_ip.iface).device
        IsPort(x) == x.device = nb_switch /\ x.name = switch_interface
        st2 == GetOne(st1, SelectFrom(st1.ifaces, IsPort, 1))
        nb_switch_interface == st2.ret
        st3 == cables_create(st2, nb_server_interface.id, nb_switch_interface.id)
    IN  IF st1.raised THEN st1
        ELSE IF nb_mgmt_ip = NoRecord THEN [st1 EXCEPT !.ret = nb_server_interface]
        ELSE IF nb_mgmt_ip.iface = 0 THEN Raise(st1, "AttributeError")
        ELSE IF st2.raised THEN st2
        ELSE IF nb_switch_interface = NoRecord
        THEN [st2 EXCEPT !.ret = nb_server_interface]
        ELSE IF st3.raised THEN st3
        ELSE [st3 EXCEPT !.ret = [nb_server_interface EXCEPT !.cable = st3.ret.id]]

\* a faulty variant of create_or_update_cable: a cable to another peer is not
\* deleted before the interface is connected to the discovered one
create_or_update_cable_KeepsOldCable(st0, switch_ip, switch_interface, nb_server_interface) ==
    LET cable == ById(st0.cables, nb_server_interface.cable)
        nb_sw_int == ById(st0.ifaces, cable.b)
        IsMgmt(x) == x.device = nb_sw_int.device /\ x.mgmt_only
        st1 == GetOne(st0, SelectFrom(st0.ifaces, IsMgmt, 1))
        nb_mgmt_int == st1.ret
        OnMgmt(ip) == ip.iface = nb_mgmt_int.id
        st2 == GetOne(st1, SelectFrom(st1.ips, OnMgmt, 1))
        nb_mgmt_ip == st2.ret
        Done(s, update) ==
            IF s.raised THEN s
            ELSE [s EXCEPT !.ret = [update |-> update, interface |-> s.ret]]
    IN  IF st0.raised THEN st0
        ELSE IF nb_server_interface.cable = 0
        THEN Done(connect_interface_to_switch(st0, switch_ip, switch_interface,
                                              nb_server_interface), TRUE)
        ELSE IF cable = NoRecord \/ nb_sw_int = NoRecord
        THEN Raise(st0, "AttributeError")
        ELSE IF st1.raised THEN st1
        ELSE IF nb_mgmt_int = NoRecord THEN Raise(st1, "AttributeError")
        ELSE IF st2.raised THEN st2
        ELSE IF nb_mgmt_ip = NoRecord
        THEN [st2 EXCEPT !.ret = [update |-> FALSE, interface |-> nb_server_interface]]
        ELSE IF Split(nb_mgmt_ip.address, "/")[1] # switch_ip
                \/ nb_sw_int.name # switch_interface
        THEN Done(connect_interface_to_switch(st2, switch_ip, switch_interface,
                                              nb_server_interface), TRUE)
        ELSE [st2 EXCEPT !.ret = [update |-> FALSE, interface |-> nb_server_interface]]

\* create_or_update_cable: the result is (update, interface)
create_or_update_cable(st0, switch_ip, switch_interface, nb_server_interface) ==
    LET cable == ById(st0.cables, nb_server_interface.cable)
        nb_sw_int == ById(st0.ifaces, cable.b)
        IsMgmt(x) == x.device = nb_sw_int.device /\ x.mgmt_only
        st1 == GetOne(st0, SelectFrom(st0.ifaces, IsMgmt, 1))
        nb_mgmt_int == st1.ret
        OnMgmt(ip) == ip.iface = nb_mgmt_int.id
        st2 == GetOne(st1, SelectFrom(st1.ips, OnMgmt, 1))
        nb_mgmt_ip == st2.ret
        st3 == cable_delete(st2, cable)
        Done(s, update) ==
            IF s.raised THEN s
            ELSE [s EXCEPT !.ret = [update |-> update, interface |-> s.ret]]
    IN  IF st0.raised THEN st0
        ELSE IF nb_server_interface.cable = 0
        THEN Done(connect_interface_to_switch(st0, switch_ip, switch_interface,
                                              nb_server_interface), TRUE)
        ELSE IF cable = NoRecord \/ nb_sw_int = NoRecord
        THEN Raise(st0, "AttributeError")
        ELSE IF st1.raised THEN st1
        ELSE IF nb_mgmt_int = NoRecord THEN Raise(st1, "AttributeError")
        ELSE IF st2.raised THEN st2
        ELSE IF nb_mgmt_ip = NoRecord
        THEN [st2 EXCEPT !.ret = [update |-> FALSE, interface |-> nb_server_interface]]
        ELSE IF Split(nb_mgmt_ip.address, "/")[1] # switch_ip
                \/ nb_sw_int.name # switch_interface
        THEN Done(connect_interface_to_switch(st3, switch_ip, switch_interface,
                                              nb_server_interface), TRUE)
        ELSE [st2 EXCEPT !.ret = [update |-> FALSE, interface |-> nb_server_interface]]

\* return x, unless an exception is propagating
Returning(st, x) == IF st.raised THEN st ELSE [st EXCEPT !.ret = x]

\* create_netbox_nic, "if nic["vlan"]": the VLAN was looked up or created, the
\* interface is tagged with it and saved
create_netbox_nic_tagged(got, created) ==
    IF got.raised THEN got
    ELSE Returning(interface_save(got, [created EXCEPT
                                           !.mode = "tagged",
                                           !.tagged_vlans = <<got.ret.id>>],
                                  created),
                   [created EXCEPT !.mode = "tagged",
                                   !.tagged_vlans = <<got.ret.id>>])

\* create_netbox_nic, the loop over the VLANs discovery reports, after the
\* VLAN of the entry e was looked up or created
lldp_vlan_got(L, g, e) ==
    IF g.raised \/ ~e.has_vid THEN [L EXCEPT !.st = g]
    ELSE [st |-> g, interface |-> [L.interface EXCEPT !.mode = "access",
                                                      !.untagged_vlan = g.ret.id]]

lldp_vlan_step(L, e) == lldp_vlan_got(L, get_or_create_vlan(L.st, e.vid), e)

\* create_netbox_nic, after that loop: the interface is saved
create_netbox_nic_lldp(looped, created) ==
    Returning(interface_save(looped.st, looped.interface, created), looped.interface)

\* create_netbox_nic, the VLANs of the interface just created (st1.ret)
create_netbox_nic_vlan(st1, nic) ==
    IF st1.raised THEN st1
    ELSE IF Truthy(nic.vlan)
    THEN create_netbox_nic_tagged(get_or_create_vlan(st1, ParseInt(nic.vlan)), st1.ret)
    ELSE IF st1.cfg.lldp /\ get_switch_vlan(st1, nic).known
    THEN create_netbox_nic_lldp(
            ForEach(lldp_vlan_step, [st |-> st1, interface |-> st1.ret],
                    get_switch_vlan(st1, nic).vlans, 1),
            st1.ret)
    ELSE st1

\* create_netbox_nic, after create_or_update_cable: the interface is saved
\* when the cable changed
create_netbox_nic_cabled(cabled, created) ==
    IF cabled.raised THEN cabled
    ELSE IF cabled.ret.update
    THEN Returning(interface_save(cabled, cabled.ret.interface, created),
                   cabled.ret.interface)
    ELSE Returning(cabled, cabled.ret.interface)

\* create_netbox_nic, the cable of the interface (st.ret)
create_netbox_nic_cable(st, nic, created) ==
    IF st.raised THEN st
    ELSE IF st.cfg.lldp /\ nic.switch_ip # "None" /\ nic.switch_port # "None"
    THEN create_netbox_nic_cabled(
            create_or_update_cable(st, nic.switch_ip, nic.switch_port, st.ret),
            created)
    ELSE st

\* create_netbox_nic, after nb_net.interfaces.create
create_netbox_nic_created(st1, nic) ==
    create_netbox_nic_cable(create_netbox_nic_vlan(st1, nic), nic, st1.ret)

\* create_netbox_nic(nic): the result is the created interface
create_netbox_nic(st0, nic) ==
    create_netbox_nic_created(
        interfaces_create(st0,
            [device |-> Dev, name |-> nic.name,
             type |-> get_netbox_type_for_nic(nic), mgmt_only |-> FALSE,
             mac_address |-> nic.mac, mtu |-> nic.mtu,
             enabled |-> ~(nic.ethtool # NoRecord /\ nic.ethtool.link = "no")]),
        nic)

\* a faulty variant of create_or_update_netbox_ip_on_interface: when every
\* Anycast record is assigned elsewhere it takes the first one over
create_or_update_netbox_ip_on_interface_Steals(st, ip, interface) ==
    LET HasAddress(x) == x.address = ip
        netbox_ips == SelectFrom(st.ips, HasAddress, 1)
        netbox_ip == netbox_ips[1]
        Unassigned(x) == x.iface = 0
        unassigned_anycast_ip == SelectFrom(netbox_ips, Unassigned, 1)
    IN  IF st.raised THEN st
        ELSE IF Len(netbox_ips) = 0
        THEN ip_addresses_create(st, ip, "None", interface.id)
        ELSE IF netbox_ip.role = "Anycast" /\ Len(unassigned_anycast_ip) > 0
        THEN ip_save(st, [unassigned_anycast_ip[1] EXCEPT !.iface = interface.id],
                     unassigned_anycast_ip[1])
        ELSE IF netbox_ip.iface = 0 \/ netbox_ip.iface # interface.id
        THEN ip_save(st, [netbox_ip EXCEPT !.iface = interface.id], netbox_ip)
        ELSE st

\* a faulty variant of create_or_update_netbox_ip_on_interface: a record that
\* is assigned to another interface is left there and a second one is created
create_or_update_netbox_ip_on_interface_Duplicates(st, ip, interface) ==
    LET HasAddress(x) == x.address = ip
        netbox_ips == SelectFrom(st.ips, HasAddress, 1)
        netbox_ip == netbox_ips[1]
        Unassigned(x) == x.iface = 0
        Here(x) == x.iface # 0 /\ x.iface = interface.id
        unassigned_anycast_ip == SelectFrom(netbox_ips, Unassigned, 1)
        assigned_anycast_ip == SelectFrom(netbox_ips, Here, 1)
    IN  IF st.raised THEN st
        ELSE IF Len(netbox_ips) = 0
        THEN ip_addresses_create(st, ip, "None", interface.id)
        ELSE IF netbox_ip.role = "Anycast"
        THEN IF Len(unassigned_anycast_ip) > 0
             THEN ip_save(st, [unassigned_anycast_ip[1] EXCEPT !.iface = interface.id],
                          unassigned_anycast_ip[1])
             ELSE IF Len(assigned_anycast_ip) = 0
             THEN ip_addresses_create(st, ip, "Anycast", interface.id)
             ELSE st
        ELSE IF netbox_ip.iface = 0
        THEN ip_save(st, [netbox_ip EXCEPT !.iface = interface.id], netbox_ip)
        ELSE IF netbox_ip.iface # interface.id
        THEN ip_addresses_create(st, ip, "None", interface.id)
        ELSE st

create_or_update_netbox_ip_on_interface(st, ip, interface) ==
    LET HasAddress(x) == x.address = ip
        netbox_ips == SelectFrom(st.ips, HasAddress, 1)
        netbox_ip == netbox_ips[1]
        Unassigned(x) == x.iface = 0
        Here(x) == x.iface # 0 /\ x.iface = interface.id
        unassigned_anycast_ip == SelectFrom(netbox_ips, Unassigned, 1)
        assigned_anycast_ip == SelectFrom(netbox_ips, Here, 1)
    IN  IF st.raised THEN st
        ELSE IF Len(netbox_ips) = 0
        THEN ip_addresses_create(st, ip, "None", interface.id)
        ELSE IF netbox_ip.role = "Anycast"
        THEN IF Len(unassigned_anycast_ip) > 0
             THEN ip_save(st, [unassigned_anycast_ip[1] EXCEPT !.iface = interface.id],
                          unassigned_anycast_ip[1])
             ELSE IF Len(assigned_anycast_ip) = 0
             THEN ip_addresses_create(st, ip, "Anycast", interface.id)
             ELSE st
        ELSE IF netbox_ip.iface = 0 \/ netbox_ip.iface # interface.id
        THEN ip_save(st, [netbox_ip EXCEPT !.iface = interface.id], netbox_ip)
        ELSE st

\* _nic_identifier of a local nic and of a remote interface
nic_identifier_local(st, nic) == IF st.cfg.nic_id = "mac" THEN nic.mac ELSE nic.name

nic_identifier_remote(st, interface) ==
    IF st.cfg.nic_id = "mac" THEN interface.mac_address ELSE interface.name

\* int(speed.replace("Mb/s", "000").replace("Gb/s", "000000"))
SpeedOf(speed) == ParseInt(ReplaceStr(ReplaceStr(speed, "Mb/s", "000"), "Gb/s", "000000"))

\* str.lower for the duplex values ethtool prints
Lower(s) == CASE s = "Full" -> "full" [] s = "Half" -> "half" [] OTHER -> s

\* the loop "update each nic" of create_or_update_netbox_network_cards: the
\* comparisons of the interface's fields with the local nic
WithName(nic, i) == IF nic.name # i.name THEN [i EXCEPT !.name = nic.name] ELSE i

WithMac(nic, i) ==
    IF nic.mac # "None" /\ nic.mac # i.mac_address
    THEN [i EXCEPT !.mac_address = nic.mac] ELSE i

WithMtu(nic, i) == IF nic.mtu # i.mtu THEN [i EXCEPT !.mtu = nic.mtu] ELSE i

WithDuplex(nic, i) ==
    IF nic.ethtool # NoRecord /\ nic.ethtool.duplex # "-"
         /\ i.duplex # Lower(nic.ethtool.duplex)
    THEN [i EXCEPT !.duplex = Lower(nic.ethtool.duplex)] ELSE i

WithSpeed(nic, i) ==
    IF nic.ethtool # NoRecord /\ nic.ethtool.speed # "-"
         /\ SpeedOf(nic.ethtool.speed) # i.speed
    THEN [i EXCEPT !.speed = SpeedOf(nic.ethtool.speed)] ELSE i

WithType(nic, i) ==
    IF i.type = "None" \/ get_netbox_type_for_nic(nic) # i.type
    THEN [i EXCEPT !.type = get_netbox_type_for_nic(nic)] ELSE i

\* the end of the loop body: the interface is saved when a field changed
nic_step_save(st6, nic_update, interface, fetched) ==
    IF st6.raised THEN st6
    ELSE IF nic_update THEN interface_save(st6, interface, fetched)
    ELSE st6

\* the IP addresses of the nic; r is what reset_vlan_on_interface returned,
\* i7 the interface before the cable, st5 the context after it
nic_step_ips(st5, nic, r, i7, wired) ==
    LET i8 == IF wired THEN st5.ret.interface ELSE i7
        Each(s, ip) == create_or_update_netbox_ip_on_interface(s, ip, i8)
    IN  IF st5.raised THEN st5
        ELSE nic_step_save(ForEach(Each, st5, nic.ip, 1),
                           r.update \/ i7 # r.interface \/ (wired /\ st5.ret.update),
                           i8, r.fetched)

\* the cable of the interface
nic_step_cable(st4, nic, r, i7) ==
    IF st4.cfg.lldp /\ nic.switch_ip # "None" /\ nic.switch_port # "None"
    THEN nic_step_ips(create_or_update_cable(st4, nic.switch_ip, nic.switch_port, i7),
                      nic, r, i7, TRUE)
    ELSE nic_step_ips(st4, nic, r, i7, FALSE)

\* a variant that leaves the LAG reference as it is
nic_step_lag_KeepsLag(st4, nic, nics, r, i6) ==
    LET lag_name == ById(st4.ifaces, i6.lag).name
        lag_hits == {k \in DOMAIN nics : nics[k].name = lag_name}
    IN  IF i6.lag # 0 /\ lag_hits = {} THEN Raise(st4, "StopIteration")
        ELSE nic_step_cable(st4, nic, r, i6)

\* the LAG the remote records for the interface
nic_step_lag(st4, nic, nics, r, i6) ==
    LET lag_name == ById(st4.ifaces, i6.lag).name
        lag_hits == {k \in DOMAIN nics : nics[k].name = lag_name}
    IN  IF i6.lag # 0 /\ lag_hits = {} THEN Raise(st4, "StopIteration")
        ELSE nic_step_cable(st4, nic, r,
                IF i6.lag # 0
                     /\ nic.name \notin Range(nics[Min(lag_hits)].bonding_slaves)
                THEN [i6 EXCEPT !.lag = 0] ELSE i6)

\* name, MAC, mtu, duplex, speed and type, after the MAC objects were updated
nic_step_fields(st4, nic, nics, r) ==
    IF st4.raised THEN st4
    ELSE nic_step_lag(st4, nic, nics, r,
            WithType(nic, WithSpeed(nic, WithDuplex(nic, WithMtu(nic,
                WithMac(nic, WithName(nic, r.interface)))))))

\* after reset_vlan_on_interface, which returned (update, interface)
nic_step_vlan(st3, nic, nics) ==
    IF st3.raised THEN st3
    ELSE nic_step_fields(
            IF st3.cfg.mac_objects /\ nic.mac # "None"
            THEN update_interface_macs(st3, WithName(nic, st3.ret.interface), nic.mac)
            ELSE st3,
            nic, nics, st3.ret)

\* with the interface of the nic, found or created (st2.ret)
nic_step_interface(st2, nic, nics) ==
    IF st2.raised THEN st2
    ELSE nic_step_vlan(reset_vlan_on_interface(st2, nic, st2.ret), nic, nics)

\* after get_netbox_network_card: the interface is created when there is none
nic_step_found(st1, nic, nics) ==
    nic_step_interface(IF st1.raised \/ st1.ret # NoRecord THEN st1
                       ELSE create_netbox_nic(st1, nic),
                       nic, nics)

\* the body of the loop "update each nic" of
\* create_or_update_netbox_network_cards
nic_step(st0, nic, nics) ==
    nic_step_found(get_netbox_network_card(st0, nic), nic, nics)

\* _set_bonding_interfaces and _set_bridge_interfaces: field is "lag" with
\* the slaves of a bonding nic, "bridge" with the slaves of a bridge nic
set_parent_interfaces(st0, nics, field) ==
    LET IsParent(x) == IF field = "lag" THEN x.bonding ELSE x.bridge
        SlavesOf(x) == IF field = "lag" THEN x.bonding_slaves ELSE x.bridge_slave
        Parent(s0, nic) ==
            LET s1 == get_netbox_network_card(s0, nic)
                parent_int == s1.ret
                IsSlave(x) == x.name \in Range(SlavesOf(nic))
                Slave(s, slave_nic) ==
                    LET s2 == get_netbox_network_card(s, slave_nic)
                        slave_int == s2.ret
                    IN  IF s2.raised THEN s2
                        ELSE IF slave_int = NoRecord THEN Raise(s2, "AttributeError")
                        ELSE IF slave_int[field] = 0 \/ slave_int[field] # parent_int.id
                        THEN interface_save(s2, [slave_int EXCEPT
                                                    ![field] = parent_int.id],
                                            slave_int)
                        ELSE s2
            IN  IF s1.raised THEN s1
                ELSE IF parent_int = NoRecord THEN Raise(s1, "AttributeError")
                ELSE ForEach(Slave, s1, SelectFrom(nics, IsSlave, 1), 1)
    IN  ForEach(Parent, st0, SelectFrom(nics, IsParent, 1), 1)

set_bonding_interfaces(st, nics) == set_parent_interfaces(st, nics, "lag")

set_bridge_interfaces(st, nics) == set_parent_interfaces(st, nics, "bridge")

\* the same without the loop that unassigns the addresses not known locally
network_cards_known_KeepsAddresses(st1, nics, nb_nics) ==
    LET Each(s, nic) == IF s.raised THEN s ELSE nic_step(s, nic, nics)
    IN  IF st1.raised THEN st1
        ELSE set_bridge_interfaces(
                set_bonding_interfaces(ForEach(Each, st1, nics, 1), nics),
                nics)

\* create_or_update_netbox_network_cards after the unknown interfaces were
\* deleted: nb_nics are the interfaces kept
network_cards_known(st1, nics, nb_nics) ==
    LET \* delete IP on netbox that are not known on this server
        OnNics(ip) == \E k \in DOMAIN nb_nics : ip.iface = nb_nics[k].id
        all_local_ips == UNION {Range(nics[k].ip) : k \in DOMAIN nics}
        Unassign(s, netbox_ip) ==
            IF netbox_ip.address \notin all_local_ips
            THEN ip_save(s, [netbox_ip EXCEPT !.iface = 0], netbox_ip)
            ELSE s
        \* update each nic
        Each(s, nic) == IF s.raised THEN s ELSE nic_step(s, nic, nics)
    IN  IF st1.raised THEN st1
        ELSE set_bridge_interfaces(
                set_bonding_interfaces(
                    ForEach(Each,
                            IF Len(nb_nics) > 0
                            THEN ForEach(Unassign, st1, SelectFrom(st1.ips, OnNics, 1), 1)
                            ELSE st1,
                            nics, 1),
                    nics),
                nics)

\* the run without its first loop: no interface is deleted
create_or_update_netbox_network_cards_KeepsUnknown(st0, nics) ==
    IF ~st0.cfg.update THEN st0
    ELSE network_cards_known(st0, nics, get_netbox_network_cards(st0))

create_or_update_netbox_network_cards(st0, nics) ==
    LET \* delete unknown interface
        local_nics == {nic_identifier_local(st0, nics[k]) : k \in DOMAIN nics}
        Unknown(x) == nic_identifier_remote(st0, x) \notin local_nics
        Known(x) == ~Unknown(x)
        Delete(s, x) == interface_delete(s, x)
    IN  IF ~st0.cfg.update THEN st0
        ELSE network_cards_known(
                ForEach(Delete, st0, SelectFrom(get_netbox_network_cards(st0), Unknown, 1), 1),
                nics, SelectFrom(get_netbox_network_cards(st0), Known, 1))

(***************************************************************************)
(* Initial states of the network reconciler: the local interfaces, the     *)
(* configuration and the remote state, drawn from three families.          *)
(***************************************************************************)
Ethtool1G ==
    [speed |-> "1000Mb/s", max_speed |-> "1000Mb/s", port |-> "Twisted Pair",
     duplex |-> "Full", link |-> "yes"]

Ethtool10G ==
    [speed |-> "10000Mb/s", max_speed |-> "-", port |-> "FIBRE",
     duplex |-> "Full", link |-> "no"]

Eth0 ==
    [name |-> "eth0", mac |-> "AA:00", ip |-> <<"10.0.0.1/24">>, vlan |-> "[]",
     mtu |-> 1500, ethtool |-> Ethtool1G, virtual |-> FALSE, bonding |-> FALSE,
     bonding_slaves |-> <<>>, bridge |-> FALSE, bridge_slave |-> <<>>,
     lldp_vlan |-> NoLldpVlan, switch_ip |-> "None", switch_port |-> "None"]

Pvid200 == [known |-> TRUE, vlans |-> <<[vid |-> 200, pvid |-> TRUE, has_vid |-> FALSE]>>]

Vid200 == [known |-> TRUE, vlans |-> <<[vid |-> 200, pvid |-> TRUE, has_vid |-> TRUE]>>]

Eth0Tagged == [Eth0 EXCEPT !.vlan = "100"]

\* a tag whose VLAN the remote does not hold
Eth0Tagged300 == [Eth0 EXCEPT !.vlan = "300"]

Eth0TaggedPvid == [Eth0 EXCEPT !.vlan = "100", !.lldp_vlan = Pvid200]

Eth0Pvid == [Eth0 EXCEPT !.lldp_vlan = Pvid200]

Eth0Vid == [Eth0 EXCEPT !.lldp_vlan = Vid200]

Eth0Wired == [Eth0 EXCEPT !.switch_ip = "192.0.2.1", !.switch_port = "swp1"]

\* discovery names a switch address the remote does not hold, one it holds
\* without an interface, and a port the switch does not have
Eth0WiredUnknown == [Eth0Wired EXCEPT !.switch_ip = "192.0.2.9"]

Eth0WiredUnbound == [Eth0Wired EXCEPT !.switch_ip = "192.0.2.2"]

Eth0WiredNoPort == [Eth0Wired EXCEPT !.switch_port = "swp9"]

Eth0Anycast == [Eth0 EXCEPT !.ip = <<"10.9.9.9/32">>]

Eth1 ==
    [Eth0 EXCEPT !.name = "eth1", !.mac = "AA:01", !.ip = <<"10.0.0.2/24">>,
                 !.ethtool = Ethtool10G, !.mtu = 9000]

Eth1SameAddress == [Eth1 EXCEPT !.ip = <<"10.0.0.1/24">>]

Bond0 ==
    [Eth0 EXCEPT !.name = "bond0", !.ip = <<>>, !.ethtool = NoRecord,
                 !.bonding = TRUE, !.bonding_slaves = <<"eth0">>]

\* a bond with a MAC of its own
Bond0OwnMac == [Bond0 EXCEPT !.mac = "AA:0B"]

Br0 ==
    [Eth0 EXCEPT !.name = "br0", !.mac = "AA:02", !.ip = <<>>, !.ethtool = NoRecord,
                 !.bridge = TRUE, !.bridge_slave = <<"eth1">>]

\* the interface get_ipmi() appends
Ipmi ==
    [Eth0 EXCEPT !.name = "IPMI", !.mac = "AA:FF", !.ip = <<"10.1.0.1/24">>,
                 !.vlan = "None", !.ethtool = NoRecord]

DefaultCfg == [nic_id |-> "name", lldp |-> TRUE, mac_objects |-> TRUE, update |-> TRUE]

\* a remote interface with the fields an interface reconciled from Eth0 has
RemoteIface(id, device, name) ==
    [id |-> id, device |-> device, name |-> name, type |-> "1000base-t",
     mgmt_only |-> FALSE, mac_address |-> "None", mtu |-> 0, enabled |-> TRUE,
     mode |-> "None", tagged_vlans |-> <<>>, untagged_vlan |-> 0, lag |-> 0,
     bridge |-> 0, cable |-> 0, duplex |-> "None", speed |-> 0]

\* what every initial remote state holds: the switch with its management
\* address and two ports, an interface of another server, VLAN 100
SwitchIfaces ==
    << [RemoteIface(1, Switch, "mgmt0") EXCEPT !.mgmt_only = TRUE],
       RemoteIface(2, Switch, "swp1"), RemoteIface(3, Switch, "swp2"),
       RemoteIface(4, Other, "eth0") >>

Vlan100 == [id |-> 5, vid |-> 100, name |-> "VLAN 100"]

Vlan200 == [id |-> 6, vid |-> 200, name |-> "VLAN 200"]

SwitchIp == [id |-> 7, address |-> "192.0.2.1/24", role |-> "None", iface |-> 1]

UnboundIp == [id |-> 24, address |-> "192.0.2.2/24", role |-> "None", iface |-> 0]

RemoteEth0 ==
    [RemoteIface(10, Dev, "eth0") EXCEPT !.mac_address = "AA:00", !.mtu = 1500,
                                         !.duplex = "full", !.speed = 1000000]

Eth0Mac == [id |-> 30, mac_address |-> "AA:00", iface |-> 10]

\* the VLAN fields the remote eth0 (or IPMI) may have before a run
VlanStates ==
    { [mode |-> "None", tagged_vlans |-> <<>>, untagged_vlan |-> 0],
      [mode |-> "tagged", tagged_vlans |-> <<5>>, untagged_vlan |-> 0],
      [mode |-> "access", tagged_vlans |-> <<>>, untagged_vlan |-> 6],
      [mode |-> "access", tagged_vlans |-> <<5>>, untagged_vlan |-> 6],
      [mode |-> "tagged", tagged_vlans |-> <<5, 6>>, untagged_vlan |-> 0],
      [mode |-> "tagged", tagged_vlans |-> <<5>>, untagged_vlan |-> 6] }

WithVlanState(interface, v) ==
    [interface EXCEPT !.mode = v.mode, !.tagged_vlans = v.tagged_vlans,
                      !.untagged_vlan = v.untagged_vlan]

Store(ifaces, vlans, ips, macs, cables) ==
    [ifaces |-> SwitchIfaces \o ifaces, vlans |-> <<Vlan100>> \o vlans,
     ips |-> <<SwitchIp>> \o ips, macs |-> macs, cables |-> cables, nextId |-> 50]

\* the lists of at most n local interfaces, one variant per interface name at
\* most, in the order of the names
RECURSIVE NicLists(_, _)
NicLists(slots, i) ==
    IF i > Len(slots) THEN {<<>>}
    ELSE {h \o t : h \in {<<>>} \cup {<<v>> : v \in slots[i]},
                   t \in NicLists(slots, i + 1)}

NicListsUpTo(slots, n) == {l \in NicLists(slots, 1) : Len(l) <= n}

MaxNics == 2

RemoteIpmi == [RemoteIface(13, Dev, "IPMI") EXCEPT !.mac_address = "AA:FF", !.mtu = 1500,
                                                  !.type = "other"]

\* VLAN family: the VLAN fields of eth0 and of the IPMI interface vary
VlanFamily ==
    [nics |-> NicListsUpTo(<< {Eth0, Eth0Tagged, Eth0Tagged300, Eth0TaggedPvid,
                               Eth0Pvid, Eth0Vid},
                              {Ipmi} >>, MaxNics),
     cfgs |-> {DefaultCfg, [DefaultCfg EXCEPT !.lldp = FALSE]},
     remotes |->
        {Store(eth0 \o ipmi, vlans, <<>>, IF eth0 = <<>> THEN <<>> ELSE <<Eth0Mac>>, <<>>) :
            eth0 \in {<<>>} \cup {<<WithVlanState(RemoteEth0, v)>> : v \in VlanStates},
            ipmi \in {<<>>, <<WithVlanState(RemoteIpmi,
                                [mode |-> "tagged", tagged_vlans |-> <<5>>,
                                 untagged_vlan |-> 0])>>},
            vlans \in {<<Vlan200>>}}
        \cup {Store(<<>>, <<>>, <<>>, <<>>, <<>>)}]

\* the records the remote may hold for the address of Eth0 and for the
\* Anycast address, and an address no local interface has
UniqueIp(iface) == [id |-> 20, address |-> "10.0.0.1/24", role |-> "None", iface |-> iface]

AnycastIp(id, iface) ==
    [id |-> id, address |-> "10.9.9.9/32", role |-> "Anycast", iface |-> iface]

StaleIp(iface) == [id |-> 23, address |-> "10.0.0.9/24", role |-> "None", iface |-> iface]

AnycastSets ==
    { <<>>, <<AnycastIp(21, 4)>>, <<AnycastIp(21, 4), AnycastIp(22, 4)>>,
      <<AnycastIp(21, 0)>>, <<AnycastIp(21, 4), AnycastIp(22, 0)>> }

\* IP family: the address records vary
IpFamily ==
    [nics |-> NicListsUpTo(<< {Eth0, Eth0Anycast}, {Eth1, Eth1SameAddress} >>, MaxNics),
     cfgs |-> {DefaultCfg},
     remotes |->
        {Store(<<>>, <<>>, unique \o anycast, <<>>, <<>>) :
            unique \in {<<>>, <<UniqueIp(0)>>, <<UniqueIp(4)>>},
            anycast \in AnycastSets}
        \cup
        {Store(<<RemoteEth0>>, <<>>, unique \o anycast \o stale, <<Eth0Mac>>, <<>>) :
            unique \in {<<>>, <<UniqueIp(0)>>, <<UniqueIp(4)>>, <<UniqueIp(10)>>},
            anycast \in AnycastSets \cup {<<AnycastIp(21, 10), AnycastIp(22, 0)>>},
            stale \in {<<>>, <<StaleIp(10)>>}}]

\* Link family: cables, LAG and bridge links, stale interfaces, and the
\* configuration vary
LinkFamily ==
    [nics |-> NicListsUpTo(<< {Eth0, Eth0Wired, Eth0WiredUnknown, Eth0WiredUnbound,
                               Eth0WiredNoPort},
                              {Eth1}, {Bond0, Bond0OwnMac}, {Br0} >>, MaxNics),
     cfgs |-> {DefaultCfg, [DefaultCfg EXCEPT !.nic_id = "mac"],
               [DefaultCfg EXCEPT !.mac_objects = FALSE],
               [DefaultCfg EXCEPT !.update = FALSE]},
     remotes |->
        { Store(<<>>, <<>>, <<>>, <<>>, <<>>),
          Store(<<RemoteEth0>>, <<>>, <<>>, <<Eth0Mac>>, <<>>),
          Store(<<RemoteEth0>>, <<>>, <<UnboundIp>>, <<Eth0Mac>>, <<>>),
          [Store(<<[RemoteEth0 EXCEPT !.cable = 40]>>, <<>>, <<>>, <<Eth0Mac>>,
                 <<[id |-> 40, a |-> 10, b |-> 3]>>)
             EXCEPT !.ifaces[3].cable = 40],
          [Store(<<[RemoteEth0 EXCEPT !.cable = 40]>>, <<>>, <<>>, <<Eth0Mac>>,
                 <<[id |-> 40, a |-> 10, b |-> 2]>>)
             EXCEPT !.ifaces[2].cable = 40],
          Store(<<[RemoteEth0 EXCEPT !.lag = 11],
                  [RemoteIface(11, Dev, "bond1") EXCEPT !.type = "lag"]>>,
                <<>>, <<>>, <<Eth0Mac>>, <<>>),
          Store(<<[RemoteEth0 EXCEPT !.lag = 11],
                  [RemoteIface(11, Dev, "bond1") EXCEPT !.type = "lag",
                                                        !.mac_address = "AA:0B"]>>,
                <<>>, <<>>,
                <<Eth0Mac, [id |-> 33, mac_address |-> "AA:0B", iface |-> 11]>>, <<>>),
          Store(<<[RemoteEth0 EXCEPT !.lag = 11],
                  [RemoteIface(11, Dev, "bond0") EXCEPT !.type = "lag"],
                  [RemoteIface(13, Dev, "eth1") EXCEPT !.lag = 11]>>,
                <<>>, <<>>, <<Eth0Mac>>, <<>>),
          Store(<<[RemoteEth0 EXCEPT !.bridge = 14],
                  [RemoteIface(14, Dev, "br0") EXCEPT !.type = "bridge",
                                                      !.mac_address = "AA:02"]>>,
                <<>>, <<>>, <<Eth0Mac, [id |-> 32, mac_address |-> "AA:02", iface |-> 14]>>,
                <<>>),
          Store(<<RemoteEth0,
                  [RemoteIface(12, Dev, "old0") EXCEPT !.mac_address = "AA:09"]>>,
                <<>>, <<StaleIp(12)>>,
                <<Eth0Mac, [id |-> 31, mac_address |-> "AA:09", iface |-> 12]>>, <<>>) }]

Families == {VlanFamily, IpFamily, LinkFamily}

NetNoOp(state) ==
    [op |-> "init", calls |-> <<>>, raised |-> FALSE, why |-> "", pre |-> state,
     target |-> NoRecord]

InitNet ==
    \E family \in Families :
    \E nics \in family.nics, cfg \in family.cfgs, remote \in family.remotes :
        /\ nb = remote
        /\ local = [nics |-> nics, cfg |-> cfg]
        /\ last = NetNoOp(remote)
        /\ hist = [ops |-> <<>>, orig |-> remote]

(***************************************************************************)
(* Operations of the network reconciler.                                   *)
(***************************************************************************)
NetCtx(budget) ==
    [ifaces |-> nb.ifaces, vlans |-> nb.vlans, ips |-> nb.ips, macs |-> nb.macs,
     cables |-> nb.cables, nextId |-> nb.nextId, calls |-> <<>>, raised |-> FALSE,
     why |-> "", budget |-> budget, ret |-> NoRecord, cfg |-> local.cfg]

\* the operation op, called for target, ended in the context st; an operation
\* that ended with an exception is remembered as "failed"
NetFinish(op, st, target) ==
    /\ nb' = [ifaces |-> st.ifaces, vlans |-> st.vlans, ips |-> st.ips,
              macs |-> st.macs, cables |-> st.cables, nextId |-> st.nextId]
    /\ last' = [op |-> op, calls |-> st.calls, raised |-> st.raised,
                why |-> st.why, pre |-> nb, target |-> target]
    /\ hist' = [hist EXCEPT !.ops = Append(@, IF st.raised /\ op # "aborted"
                                              THEN "failed" ELSE op)]
    /\ UNCHANGED local

\* Network.create_or_update_netbox_network_cards, no transport error
NetworkCards ==
    /\ CanRun
    /\ NetFinish("network_cards",
                 create_or_update_netbox_network_cards(NetCtx(-1), local.nics),
                 NoRecord)

\* a run ended in the context st by a transport error
NetAborted(st) == st.why = "transport" /\ NetFinish("aborted", st, NoRecord)

\* the same run, aborted by a transport error at a write
AbortedNetworkCards ==
    /\ hist.ops = <<>>
    /\ \E k \in 0..MaxAbort :
          NetAborted(create_or_update_netbox_network_cards(NetCtx(k), local.nics))

\* Network.create_or_update_netbox_ip_on_interface for one local address and
\* the remote interface of its nic, called on its own
IpOnInterface ==
    /\ hist.ops = <<>>
    /\ \E n \in DOMAIN local.nics : \E a \in DOMAIN local.nics[n].ip :
       \E k \in DOMAIN nb.ifaces :
          /\ nb.ifaces[k].device = Dev
          /\ nb.ifaces[k].name = local.nics[n].name
          /\ NetFinish("ip_on_interface",
                       create_or_update_netbox_ip_on_interface(
                           NetCtx(-1), local.nics[n].ip[a], nb.ifaces[k]),
                       [address |-> local.nics[n].ip[a],
                        interface |-> nb.ifaces[k].id])

\* Network.reset_vlan_on_interface for one local interface and the remote
\* interface of its name, called on its own; what it returns is remembered
ResetVlanReturned(st, n) ==
    NetFinish("reset_vlan_on_interface", st,
              IF st.raised THEN NoRecord
              ELSE [nic |-> n, update |-> st.ret.update,
                    interface |-> st.ret.interface])

ResetVlanOnInterface ==
    /\ hist.ops = <<>>
    /\ \E n \in DOMAIN local.nics : \E k \in DOMAIN nb.ifaces :
          /\ nb.ifaces[k].device = Dev
          /\ nb.ifaces[k].name = local.nics[n].name
          /\ ResetVlanReturned(
                 reset_vlan_on_interface(NetCtx(-1), local.nics[n], nb.ifaces[k]), n)

\* Network.create_or_update_cable for one local interface with a discovered
\* peer and the remote interface of its name, called on its own
CableReturned(st, n, interface) ==
    NetFinish("create_or_update_cable", st,
              IF st.raised THEN [nic |-> n, interface |-> interface.id]
              ELSE [nic |-> n, interface |-> interface.id, update |-> st.ret.update])

CreateOrUpdateCable ==
    /\ hist.ops = <<>>
    /\ local.cfg.lldp
    /\ \E n \in DOMAIN local.nics : \E k \in DOMAIN nb.ifaces :
          /\ local.nics[n].switch_ip # "None"
          /\ local.nics[n].switch_port # "None"
          /\ nb.ifaces[k].device = Dev
          /\ nb.ifaces[k].name = local.nics[n].name
          /\ CableReturned(
                 create_or_update_cable(NetCtx(-1), local.nics[n].switch_ip,
                                        local.nics[n].switch_port, nb.ifaces[k]),
                 n, nb.ifaces[k])

NextNet ==
    \/ NetworkCards
    \/ AbortedNetworkCards
    \/ IpOnInterface
    \/ ResetVlanOnInterface
    \/ CreateOrUpdateCable

SpecNet == InitNet /\ [][NextNet]_vars

(***************************************************************************)
(* Properties of the network reconciler, over SpecNet.                     *)
(***************************************************************************)
\* the last n operations were whole network runs that ended without exception
LastNetRunsWere(n) ==
    /\ Len(hist.ops) >= n
    /\ \A i \in DOMAIN hist.ops :
          i > Len(hist.ops) - n => hist.ops[i] = "network_cards"

\* the remote interface of the device that a local nic is reconciled with
ReconciledIfaces(nic) ==
    {k \in DOMAIN nb.ifaces :
        /\ nb.ifaces[k].device = Dev
        /\ IF local.cfg.nic_id = "mac" /\ nic.mac # "None"
           THEN nb.ifaces[k].mac_address = nic.mac
           ELSE nb.ifaces[k].name = nic.name}

\* C2  Network idempotence: the second of two runs of
\* create_or_update_netbox_network_cards in a row, with the same local
\* interfaces and discovery data, issues no remote write.
C2_SecondNetworkRunIssuesNoWrite == LastNetRunsWere(2) => last.calls = <<>>

\* the failing inputs C2 names: an interface with a local VLAN tag and a
\* discovered port VLAN id, whose second run writes the interface again
C2_TaggedPvidRewritten ==
    /\ LastNetRunsWere(2)
    /\ local.nics = <<Eth0TaggedPvid>>
    /\ local.cfg.lldp
    /\ \E i \in DOMAIN last.calls :
          last.calls[i].op = "interfaces.update" /\ "mode" \in last.calls[i].fields

\* C4  VLAN state completeness: after a run that completes without error,
\* every reconciled interface has (no mode, no VLAN), or (tagged, the one
\* VLAN of the local tag, no untagged VLAN), or (access, the discovered port
\* VLAN untagged, no tagged VLAN).
PvidOf(nic) ==
    {nic.lldp_vlan.vlans[k].vid :
        k \in {j \in DOMAIN nic.lldp_vlan.vlans :
                  local.cfg.lldp /\ nic.lldp_vlan.vlans[j].pvid}}

VlanStateOk(nic, interface) ==
    \/ /\ interface.mode = "None"
       /\ interface.tagged_vlans = <<>>
       /\ interface.untagged_vlan = 0
    \/ /\ interface.mode = "tagged"
       /\ Len(interface.tagged_vlans) = 1
       /\ Truthy(nic.vlan)
       /\ ById(nb.vlans, interface.tagged_vlans[1]).vid = ParseInt(nic.vlan)
       /\ interface.untagged_vlan = 0
    \/ /\ interface.mode = "access"
       /\ interface.untagged_vlan # 0
       /\ ById(nb.vlans, interface.untagged_vlan).vid \in PvidOf(nic)
       /\ interface.tagged_vlans = <<>>

C4_VlanStateComplete ==
    (last.op = "network_cards" /\ ~last.raised /\ local.cfg.update) =>
        \A n \in DOMAIN local.nics : \A k \in ReconciledIfaces(local.nics[n]) :
            VlanStateOk(local.nics[n], nb.ifaces[k])

\* C14  Creation of a tagged interface: for a local interface with a VLAN tag
\* v and no remote interface with its identity key, a run that completes
\* creates exactly one interface with the local name, which ends the run in
\* mode tagged with the one tagged VLAN v and no untagged VLAN; VLAN v is
\* created exactly when the remote held no VLAN with that id; and after the
\* save that follows the creation no call changes the VLAN fields of the
\* interface.
\* the local interface nic had no remote interface with its identity key
\* before the last operation
NoRemoteFor(nic) ==
    \A k \in DOMAIN last.pre.ifaces :
        last.pre.ifaces[k].device = Dev =>
            nic_identifier_remote([cfg |-> local.cfg], last.pre.ifaces[k])
                # nic_identifier_local([cfg |-> local.cfg], nic)

VlanFields == {"mode", "tagged_vlans", "untagged_vlan"}

\* the calls of the last operation that change a VLAN field of the interface
VlanUpdates(id) ==
    {i \in CallsOf("interfaces.update") :
        last.calls[i].id = id /\ last.calls[i].fields \cap VlanFields # {}}

CreatedFor(nic) ==
    {i \in CallsOf("interfaces.create") : last.calls[i].name = nic.name}

C14_TaggedInterfaceCreated ==
    (last.op = "network_cards" /\ ~last.raised /\ local.cfg.update) =>
        \A n \in DOMAIN local.nics :
            LET nic == local.nics[n]
                v == ParseInt(nic.vlan)
            IN  (Truthy(nic.vlan) /\ NoRemoteFor(nic)) =>
                  /\ Cardinality(CreatedFor(nic)) = 1
                  /\ \A i \in CreatedFor(nic) :
                        LET interface == ById(nb.ifaces, last.calls[i].id)
                        IN  /\ interface.mode = "tagged"
                            /\ Len(interface.tagged_vlans) = 1
                            /\ VidOf(nb, interface.tagged_vlans[1]) = v
                            /\ interface.untagged_vlan = 0
                            /\ Cardinality(VlanUpdates(last.calls[i].id)) = 1
                  /\ Cardinality({i \in CallsOf("vlans.create") : last.calls[i].vid = v})
                       = IF \E k \in DOMAIN last.pre.vlans : last.pre.vlans[k].vid = v
                         THEN 0 ELSE 1

\* C15  Retagging: when reset_vlan_on_interface is called for a local
\* interface with VLAN tag v and a remote interface that is not already
\* (mode tagged, tagged set {v}, no untagged VLAN), it returns the interface
\* with mode tagged, tagged set {VLAN v} and no untagged VLAN, and reports an
\* update; VLAN v is created exactly when the remote held none with that id.
\* the remote interface reset_vlan_on_interface was last called for
ResetBefore == ById(last.pre.ifaces, last.target.interface.id)

\* the interface is tagged with the one VLAN of the id v and has no untagged VLAN
TaggedOnly(state, interface, v) ==
    /\ interface.mode = "tagged"
    /\ Len(interface.tagged_vlans) = 1
    /\ VidOf(state, interface.tagged_vlans[1]) = v
    /\ interface.untagged_vlan = 0

C15_Retagged ==
    (last.op = "reset_vlan_on_interface" /\ ~last.raised) =>
        LET nic == local.nics[last.target.nic]
            v == ParseInt(nic.vlan)
        IN  (Truthy(nic.vlan) /\ ~TaggedOnly(last.pre, ResetBefore, v)) =>
              /\ last.target.update
              /\ TaggedOnly(nb, last.target.interface, v)
              /\ Cardinality(CallsOf("vlans.create"))
                   = IF \E k \in DOMAIN last.pre.vlans : last.pre.vlans[k].vid = v
                     THEN 0 ELSE 1

\* an interface tagged with VLAN 100 alone, retagged for the local tag 300
C15_RetaggedExample ==
    /\ last.op = "reset_vlan_on_interface"
    /\ ~last.raised
    /\ local.nics[last.target.nic].vlan = "300"
    /\ ResetBefore.mode = "tagged"
    /\ ResetBefore.tagged_vlans = <<5>>
    /\ TaggedOnly(nb, last.target.interface, 300)

\* C26  VLAN reset to untagged: when reset_vlan_on_interface is called for a
\* local interface without a VLAN tag (the empty list scan gives, or None)
\* for which discovery gives no VLAN, and the remote interface has a mode or
\* tagged VLANs, it returns the interface with no mode, no tagged VLAN and no
\* untagged VLAN, and reports an update.
ResetNic == local.nics[last.target.nic]

NoDiscoveredVlan(nic) == ~(local.cfg.lldp /\ nic.lldp_vlan.known)

C26_ResetToUntagged ==
    (/\ last.op = "reset_vlan_on_interface"
     /\ ~last.raised
     /\ ~Truthy(ResetNic.vlan)
     /\ NoDiscoveredVlan(ResetNic)
     /\ (ResetBefore.mode # "None" \/ ResetBefore.tagged_vlans # <<>>))
    => /\ last.target.update
       /\ last.target.interface.mode = "None"
       /\ last.target.interface.tagged_vlans = <<>>
       /\ last.target.interface.untagged_vlan = 0

\* the IPMI interface, whose tag is None, was reset
C26_IpmiReset ==
    /\ last.op = "reset_vlan_on_interface"
    /\ ~last.raised
    /\ ResetNic.vlan = "None"
    /\ NoDiscoveredVlan(ResetNic)
    /\ ResetBefore.mode = "tagged"
    /\ last.target.update
    /\ last.target.interface.mode = "None"
    /\ last.target.interface.tagged_vlans = <<>>

\* C27  Access mode only without a local tag: a call of reset_vlan_on_interface
\* that reports an update gives the outcome of one of its three branches; the
\* access outcome (mode access, untagged VLAN = the discovered port VLAN) is
\* given only for a local interface without a VLAN tag; and a local interface
\* with a tag whose remote interface is tagged with exactly that VLAN is
\* returned unchanged with no update, whatever discovery reports.
ResetOutcome ==
    LET i == last.target.interface
    IN  IF i.mode = "None" /\ i.tagged_vlans = <<>> /\ i.untagged_vlan = 0 THEN "untagged"
        ELSE IF i.mode = "tagged" /\ Len(i.tagged_vlans) = 1 /\ i.untagged_vlan = 0
             THEN "tagged"
        ELSE IF i.mode = "access" /\ i.untagged_vlan # 0 THEN "access"
        ELSE "other"

CorrectlyTagged(state, interface, nic) ==
    /\ Truthy(nic.vlan)
    /\ interface.mode = "tagged"
    /\ Len(interface.tagged_vlans) = 1
    /\ VidOf(state, interface.tagged_vlans[1]) = ParseInt(nic.vlan)

C27_AccessOnlyWithoutTag ==
    (last.op = "reset_vlan_on_interface" /\ ~last.raised) =>
        /\ last.target.update =>
              /\ ResetOutcome \in {"untagged", "tagged", "access"}
              /\ ResetOutcome = "access" => ~Truthy(ResetNic.vlan)
        /\ CorrectlyTagged(last.pre, ResetBefore, ResetNic) =>
              /\ ~last.target.update
              /\ last.target.interface = ResetBefore

\* C16  Interface existence: a run of create_or_update_netbox_network_cards
\* first deletes, once each and before any other write, exactly the remote
\* interfaces of the device whose identity key (MAC or name, as configured)
\* is the key of no local interface; the interfaces whose key is local are
\* never deleted, nor are those of other devices.
LocalKeys == {nic_identifier_local([cfg |-> local.cfg], local.nics[n]) : n \in DOMAIN local.nics}

\* the interfaces of the device before the last operation whose key is not local
UnknownBefore ==
    {last.pre.ifaces[k].id : k \in
        {j \in DOMAIN last.pre.ifaces :
            /\ last.pre.ifaces[j].device = Dev
            /\ nic_identifier_remote([cfg |-> local.cfg], last.pre.ifaces[j])
                  \notin LocalKeys}}

DeletionsOf(id) == {i \in CallsOf("interfaces.delete") : last.calls[i].id = id}

C16_UnknownInterfacesDeleted ==
    (last.op = "network_cards" /\ local.cfg.update) =>
        /\ \A k \in DOMAIN last.pre.ifaces :
              LET id == last.pre.ifaces[k].id
              IN  IF id \in UnknownBefore
                  THEN /\ Cardinality(DeletionsOf(id)) = 1
                       /\ \A j \in DOMAIN nb.ifaces : nb.ifaces[j].id # id
                  ELSE /\ DeletionsOf(id) = {}
                       /\ \E j \in DOMAIN nb.ifaces : nb.ifaces[j].id = id
        /\ \A i \in CallsOf("interfaces.delete") : i <= Cardinality(UnknownBefore)

\* a run that deleted the stale interface old0 and kept eth0
C16_Witness ==
    /\ last.op = "network_cards"
    /\ ~last.raised
    /\ UnknownBefore = {12}
    /\ DeletionsOf(12) # {}
    /\ \E k \in DOMAIN last.pre.ifaces :
          last.pre.ifaces[k].id = 10 /\ 10 \notin UnknownBefore
    /\ \E j \in DOMAIN nb.ifaces : nb.ifaces[j].id = 10

\* C17  IP addresses are unassigned, never deleted: after a run of
\* create_or_update_netbox_network_cards every IP record that was bound to an
\* interface of the device and whose address no local interface has is bound
\* to no interface; and no operation issues a deletion of an IP record or
\* lowers the number of IP records, every record held before is held after.
AllLocalIps == UNION {Range(local.nics[n].ip) : n \in DOMAIN local.nics}

\* the IP records bound to an interface of the device before the last
\* operation whose address is not local
StaleBefore ==
    {k \in DOMAIN last.pre.ips :
        /\ last.pre.ips[k].address \notin AllLocalIps
        /\ \E j \in DOMAIN last.pre.ifaces :
              /\ last.pre.ifaces[j].device = Dev
              /\ last.pre.ifaces[j].id = last.pre.ips[k].iface}

RecordsOf(state, address) ==
    {k \in DOMAIN state.ips : state.ips[k].address = address}

AllAnycastElsewhere(state, target) ==
    /\ RecordsOf(state, target.address) # {}
    /\ \A k \in RecordsOf(state, target.address) :
          /\ state.ips[k].role = "Anycast"
          /\ state.ips[k].iface \notin {0, target.interface}

C5_AnycastCreatesNew ==
    (last.op = "ip_on_interface" /\ AllAnycastElsewhere(last.pre, last.target)) =>
        /\ ~last.raised
        /\ Cardinality(RecordsOf(nb, last.target.address))
              = Cardinality(RecordsOf(last.pre, last.target.address)) + 1
        /\ \A k \in DOMAIN last.pre.ips : nb.ips[k] = last.pre.ips[k]
        /\ \E k \in DOMAIN nb.ips \ DOMAIN last.pre.ips :
              /\ nb.ips[k].address = last.target.address
              /\ nb.ips[k].role = "Anycast"
              /\ nb.ips[k].iface = last.target.interface

C5_Witness ==
    /\ last.op = "ip_on_interface"
    /\ AllAnycastElsewhere(last.pre, last.target)
    /\ Cardinality(RecordsOf(last.pre, last.target.address)) = 2
    /\ Len(last.calls) = 1
    /\ last.calls[1].op = "ip_addresses.create"

\* C18  Unique IP binding: create_or_update_netbox_ip_on_interface, called
\* for a local address whose one record is not Anycast, writes the target
\* interface into the record when the record is unassigned or assigned to
\* another interface, and writes nothing when the record is already bound to
\* the target; called for an address with no record it creates one record
\* bound to the target. So an address that had at most one record, not
\* Anycast, before any operation has at most one record after every
\* operation, bound to one interface at most.
\* the one record the address of the last call had before it, not Anycast
UniqueBefore ==
    /\ Cardinality(RecordsOf(last.pre, last.target.address)) = 1
    /\ \A k \in RecordsOf(last.pre, last.target.address) :
          last.pre.ips[k].role # "Anycast"

\* the last operation wrote the interface of the target into that record, and
\* nothing else
BoundByUpdate ==
    /\ Len(last.calls) = 1
    /\ \A k \in RecordsOf(last.pre, last.target.address) :
          /\ last.calls[1].op = "ip_addresses.update"
          /\ last.calls[1].id = last.pre.ips[k].id
          /\ last.calls[1].iface = last.target.interface
          /\ nb.ips = [last.pre.ips EXCEPT ![k].iface = last.target.interface]

\* the last operation created one record bound to the target, and nothing else
BoundByCreate ==
    /\ Len(last.calls) = 1
    /\ last.calls[1].op = "ip_addresses.create"
    /\ last.calls[1].address = last.target.address
    /\ last.calls[1].iface = last.target.interface
    /\ Len(nb.ips) = Len(last.pre.ips) + 1
    /\ \A j \in RecordsOf(nb, last.target.address) :
          nb.ips[j].iface = last.target.interface /\ nb.ips[j].role # "Anycast"

C18_UniqueIpBinding ==
    /\ (last.op = "ip_on_interface" /\ ~last.raised) =>
          /\ UniqueBefore =>
                \A k \in RecordsOf(last.pre, last.target.address) :
                    IF last.pre.ips[k].iface = last.target.interface
                    THEN last.calls = <<>> /\ nb = last.pre
                    ELSE BoundByUpdate
          /\ RecordsOf(last.pre, last.target.address) = {} => BoundByCreate
    /\ \A n \in DOMAIN local.nics : \A a \in DOMAIN local.nics[n].ip :
          (/\ Cardinality(RecordsOf(hist.orig, local.nics[n].ip[a])) <= 1
           /\ \A k \in RecordsOf(hist.orig, local.nics[n].ip[a]) :
                 hist.orig.ips[k].role # "Anycast")
          => /\ Cardinality(RecordsOf(nb, local.nics[n].ip[a])) <= 1
             /\ \A k \in RecordsOf(nb, local.nics[n].ip[a]) : nb.ips[k].role # "Anycast"

\* the record of 10.0.0.1/24, assigned to the interface of another device,
\* was reassigned to eth0
C18_Witness ==
    /\ last.op = "ip_on_interface"
    /\ ~last.raised
    /\ UniqueBefore
    /\ ById(last.pre.ips, 20).iface = 4
    /\ last.target = [address |-> "10.0.0.1/24", interface |-> 10]
    /\ BoundByUpdate
    /\ ById(nb.ips, 20).iface = 10

\* C19  Cable reconciliation: create_or_update_cable, called for an interface
\* whose cable ends at the discovered port of the switch with the discovered
\* management address, writes nothing and reports no update; when the cable
\* ends elsewhere its first call deletes that cable, and a cable is created
\* only after it; when the interface has no cable and the discovered port is
\* found, one cable from the interface to that port is created.  No cable is
\* ever updated, and no interface of the device is ever an end of two cables.
\* the interface the last call was made for, and its local nic
CabledIface == ById(last.pre.ifaces, last.target.interface)

CabledNic == local.nics[last.target.nic]

\* the far end of the cable the interface had, and the management addresses
\* of the device at that end, without their masks
PeerPort == ById(last.pre.ifaces, ById(last.pre.cables, CabledIface.cable).b)

PeerMgmtIps ==
    {Split(last.pre.ips[k].address, "/")[1] : k \in
        {j \in DOMAIN last.pre.ips :
            \E m \in DOMAIN last.pre.ifaces :
                /\ last.pre.ifaces[m].id = last.pre.ips[j].iface
                /\ last.pre.ifaces[m].device = PeerPort.device
                /\ last.pre.ifaces[m].mgmt_only}}

PeerIsDiscovered ==
    PeerMgmtIps = {CabledNic.switch_ip} /\ PeerPort.name = CabledNic.switch_port

\* the ports of the name discovered, on the device whose interface holds the
\* address discovered
DiscoveredPorts(state, nic) ==
    {state.ifaces[p].id : p \in
        {q \in DOMAIN state.ifaces :
            /\ state.ifaces[q].name = nic.switch_port
            /\ \E j \in DOMAIN state.ips : \E m \in DOMAIN state.ifaces :
                  /\ Split(state.ips[j].address, "/")[1] = nic.switch_ip
                  /\ state.ifaces[m].id = state.ips[j].iface
                  /\ state.ifaces[m].device = state.ifaces[q].device}}

\* the ids of the cables of which the interface is an end
CablesAt(state, id) ==
    {state.cables[k].id : k \in
        {j \in DOMAIN state.cables : id \in {state.cables[j].a, state.cables[j].b}}}

HasPeer(nic) == nic.switch_ip # "None" /\ nic.switch_port # "None"

\* the lookup of the discovered port fails in the state
LookupFails(state, nic) == HasPeer(nic) /\ DiscoveredPorts(state, nic) = {}

\* the interfaces of the device with the name, in the state
Named(state, name) ==
    {k \in DOMAIN state.ifaces :
        state.ifaces[k].device = Dev /\ state.ifaces[k].name = name}

\* no bond or bridge locally, no LAG remotely: nothing but the cabling can
\* end the run early
PlainRun ==
    /\ \A n \in DOMAIN local.nics : ~local.nics[n].bonding /\ ~local.nics[n].bridge
    /\ \A k \in DOMAIN last.pre.ifaces : last.pre.ifaces[k].lag = 0

\* the local interface has a remote interface to which each of its addresses
\* is bound
Reconciled(nic) ==
    \E k \in Named(nb, nic.name) : \A a \in DOMAIN nic.ip :
        \E j \in RecordsOf(nb, nic.ip[a]) : nb.ips[j].iface = nb.ifaces[k].id

C20_LookupFailureNonFatal ==
    /\ (/\ last.op = "create_or_update_cable"
        /\ CabledIface.cable = 0
        /\ LookupFails(last.pre, CabledNic))
       => ~last.raised /\ last.calls = <<>> /\ nb = last.pre
    /\ (last.op = "network_cards" /\ local.cfg.update /\ local.cfg.lldp /\ PlainRun) =>
          \A n \in DOMAIN local.nics :
             (/\ LookupFails(last.pre, local.nics[n])
              /\ \A k \in Named(last.pre, local.nics[n].name) :
                    last.pre.ifaces[k].cable = 0)
             => /\ ~last.raised
                /\ \A k \in Named(nb, local.nics[n].name) :
                      /\ nb.ifaces[k].cable = 0
                      /\ CablesAt(nb, nb.ifaces[k].id) = {}
                /\ \A m \in DOMAIN local.nics : Reconciled(local.nics[m])

\* the interface of the device that get_netbox_network_card gives for the nic
\* in the remote state, or NoRecord
RemoteOf(state, nic) ==
    LET hits == {k \in DOMAIN state.ifaces :
                    /\ state.ifaces[k].device = Dev
                    /\ IF local.cfg.nic_id = "mac" /\ nic.mac # "None"
                       THEN HasMac([cfg |-> local.cfg, macs |-> state.macs],
                                   state.ifaces[k], nic.mac)
                       ELSE state.ifaces[k].name = nic.name}
    IN  IF Cardinality(hits) = 1 THEN state.ifaces[CHOOSE k \in hits : TRUE]
        ELSE NoRecord

\* the local interfaces named like the remote interface of the id
LocalNamedLike(state, id) ==
    {n \in DOMAIN local.nics : local.nics[n].name = ById(state.ifaces, id).name}

LagUpdates(id) ==
    {i \in CallsOf("interfaces.update") :
        last.calls[i].id = id /\ "lag" \in last.calls[i].fields}

\* the nic had, before the run, a remote interface of its own (no other local
\* interface resolves to it) with a LAG parent that the run keeps and that a
\* local interface is named like
HadLag(nic) ==
    /\ RemoteOf(last.pre, nic) # NoRecord
    /\ \A m \in DOMAIN local.nics :
          RemoteOf(last.pre, local.nics[m]) = RemoteOf(last.pre, nic)
              => local.nics[m] = nic
    /\ RemoteOf(last.pre, nic).lag # 0
    /\ RemoteOf(last.pre, nic).lag \notin UnknownBefore
    /\ LocalNamedLike(last.pre, RemoteOf(last.pre, nic).lag) # {}

ListedByParent(nic) ==
    \A p \in LocalNamedLike(last.pre, RemoteOf(last.pre, nic).lag) :
        nic.name \in Range(local.nics[p].bonding_slaves)

\* C29  LAG reference is cleared when stale: after a run that ended without
\* exception, a remote interface that had a LAG parent whose local namesake
\* does not list the interface among its bonding slaves was written with its
\* LAG reference changed and no longer refers to that parent; one whose
\* parent's namesake lists it was not written in its LAG reference and still
\* refers to the parent.
C29_StaleLagCleared ==
    (last.op = "network_cards" /\ ~last.raised /\ local.cfg.update) =>
        \A n \in DOMAIN local.nics :
            LET nic == local.nics[n]
                before == RemoteOf(last.pre, nic)
                after == ById(nb.ifaces, before.id)
            IN  HadLag(nic) =>
                    IF ListedByParent(nic)
                    THEN LagUpdates(before.id) = {} /\ after.lag = before.lag
                    ELSE LagUpdates(before.id) # {} /\ after.lag # before.lag

\* eth1 was unlinked from bond0, which lists only eth0
C29_Witness ==
    /\ last.op = "network_cards"
    /\ ~last.raised
    /\ local.cfg.update
    /\ \E n \in DOMAIN local.nics :
          /\ local.nics[n].name = "eth1"
          /\ HadLag(local.nics[n])
          /\ ~ListedByParent(local.nics[n])
          /\ LagUpdates(13) # {}
          /\ ById(nb.ifaces, 13).lag = 0

\* the local parents of the kind (bonds for "lag", bridges for "bridge") and
\* the local interfaces each lists as a slave
SlaveNames(nic, field) ==
    IF field = "lag" THEN (IF nic.bonding THEN Range(nic.bonding_slaves) ELSE {})
    ELSE (IF nic.bridge THEN Range(nic.bridge_slave) ELSE {})

LocalLinks(field) ==
    {<<p, s>> \in (DOMAIN local.nics) \X (DOMAIN local.nics) :
        local.nics[s].name \in SlaveNames(local.nics[p], field)}

LinkFields == {"lag", "bridge"}

LinkUpdates(id, field) ==
    {i \in CallsOf("interfaces.update") :
        last.calls[i].id = id /\ field \in last.calls[i].fields}

\* C30  Second pass links children to parents: after a run that ended without
\* exception, every local interface has a remote interface; for every local
\* bond and every local interface named in its slave list the remote interface
\* of the slave has the remote interface of the bond as its LAG parent, and
\* likewise for bridges; and a slave whose reference was already that parent
\* before the run is not written in that reference.
C30_ChildrenLinked ==
    (last.op = "network_cards" /\ ~last.raised /\ local.cfg.update) =>
        /\ \A n \in DOMAIN local.nics : RemoteOf(nb, local.nics[n]) # NoRecord
        /\ \A field \in LinkFields : \A l \in LocalLinks(field) :
              LET parent == RemoteOf(nb, local.nics[l[1]])
                  slave == RemoteOf(nb, local.nics[l[2]])
                  parent0 == RemoteOf(last.pre, local.nics[l[1]])
                  slave0 == RemoteOf(last.pre, local.nics[l[2]])
              IN  /\ slave[field] = parent.id
                  /\ (/\ slave0 # NoRecord
                      /\ parent0 # NoRecord
                      /\ slave0[field] = parent0.id)
                     => LinkUpdates(slave0.id, field) = {}

UpdatesOf(id) == {i \in CallsOf("interfaces.update") : last.calls[i].id = id}

\* no bond and no bridge locally: the second pass writes nothing
NoSecondPass ==
    \A n \in DOMAIN local.nics : ~local.nics[n].bonding /\ ~local.nics[n].bridge

\* the interfaces of the device after the run, each resolved by one local nic
OwnRemotes ==
    {RemoteOf(nb, local.nics[n]).id : n \in
        {m \in DOMAIN local.nics :
            /\ RemoteOf(nb, local.nics[m]) # NoRecord
            /\ \A k \in DOMAIN local.nics :
                  RemoteOf(nb, local.nics[k]) = RemoteOf(nb, local.nics[m])
                      => local.nics[k] = local.nics[m]}}

\* C31  Batched save: in one run that ended without exception, the remote
\* interface of each local interface is updated at most once, whether it
\* existed before the run or was created in it; an update names at least one
\* field, and an interface that is after the run as it was before it was not
\* updated.
C31_BatchedSave ==
    (last.op = "network_cards" /\ ~last.raised /\ local.cfg.update /\ NoSecondPass) =>
        \A id \in OwnRemotes :
            /\ Cardinality(UpdatesOf(id)) <= 1
            /\ \A i \in UpdatesOf(id) : last.calls[i].fields # {}
            /\ ById(last.pre.ifaces, id) = ById(nb.ifaces, id) => UpdatesOf(id) = {}

VlanRecordsOf(state, vid) == {k \in DOMAIN state.vlans : state.vlans[k].vid = vid}

\* C33  VLANs are looked up or created, never deleted or duplicated: an
\* operation creates a VLAN of an id only when the remote had no VLAN of that
\* id, and once per id; it issues no other write on VLANs, and every VLAN
\* record of before the operation is there after it, unchanged.
C33_VlansOnlyCreated ==
    last.op # "init" =>
        /\ \A i \in DOMAIN last.calls :
              last.calls[i].op \notin {"vlans.update", "vlans.delete"}
        /\ \A i \in CallsOf("vlans.create") :
              /\ VlanRecordsOf(last.pre, last.calls[i].vid) = {}
              /\ \A j \in CallsOf("vlans.create") :
                    last.calls[j].vid = last.calls[i].vid => i = j
              /\ Cardinality(VlanRecordsOf(nb, last.calls[i].vid)) = 1
        /\ \A k \in DOMAIN last.pre.vlans :
              \E j \in DOMAIN nb.vlans : nb.vlans[j] = last.pre.vlans[k]
        /\ Len(nb.vlans) = Len(last.pre.vlans) + Cardinality(CallsOf("vlans.create"))

\* a second run found the VLAN the first run created, and created none
C33_Witness ==
    /\ LastNetRunsWere(2)
    /\ ~last.raised
    /\ CallsOf("vlans.create") = {}
    /\ Len(last.pre.vlans) > Len(hist.orig.vlans)
    /\ \E n \in DOMAIN local.nics :
          /\ Truthy(local.nics[n].vlan)
          /\ VlanRecordsOf(hist.orig, ParseInt(local.nics[n].vlan)) = {}
          /\ Cardinality(VlanRecordsOf(nb, ParseInt(local.nics[n].vlan))) = 1

\* the Anycast records of the address bound to the interface
AnycastOn(state, interface, address) ==
    {k \in RecordsOf(state, address) :
        state.ips[k].role = "Anycast" /\ state.ips[k].iface = interface}

\* before the call the interface holds an Anycast record of the address and
\* another Anycast record of the address is unassigned
HeldAndSpare(state, target) ==
    /\ AnycastOn(state, target.interface, target.address) # {}
    /\ AnycastOn(state, 0, target.address) # {}

\* C35  At most one anycast record per interface and address: after any
\* sequence of operations no interface of the device is bound to two Anycast
\* records of one address, unless it was before the first of them; and a call
\* of create_or_update_netbox_ip_on_interface for an interface that holds an
\* Anycast record of the address, while another one is unassigned, issues no
\* write.
C35_OneAnycastPerInterface ==
    /\ \A k \in DOMAIN nb.ifaces : \A a \in {nb.ips[j].address : j \in DOMAIN nb.ips} :
          (nb.ifaces[k].device = Dev
              /\ Cardinality(AnycastOn(hist.orig, nb.ifaces[k].id, a)) <= 1)
            => Cardinality(AnycastOn(nb, nb.ifaces[k].id, a)) <= 1
    /\ (last.op = "ip_on_interface" /\ HeldAndSpare(last.pre, last.target))
          => last.calls = <<>> /\ nb = last.pre

\* some local bridge names the interface in its slave list
BridgedLocally(name) ==
    \E n \in DOMAIN local.nics :
        local.nics[n].bridge /\ name \in Range(local.nics[n].bridge_slave)

\* C36  Bridge references converge: after a run that ended without exception
\* a remote interface of the device has a bridge parent only if a local bridge
\* names the interface in its slave list.
C36_BridgeReferencesConverge ==
    (last.op = "network_cards" /\ ~last.raised /\ local.cfg.update) =>
        \A k \in DOMAIN nb.ifaces :
            (nb.ifaces[k].device = Dev /\ nb.ifaces[k].bridge # 0)
                => BridgedLocally(nb.ifaces[k].name)

\* C37  One remote interface per local interface: after a run that ended
\* without exception, every local interface has exactly one remote interface
\* of the device with its name, and no remote interface is the one two
\* different local interfaces resolve to, under either identity setting.
C37_OneRemotePerLocal ==
    (last.op = "network_cards" /\ ~last.raised /\ local.cfg.update) =>
        /\ \A n \in DOMAIN local.nics :
              Cardinality(Named(nb, local.nics[n].name)) = 1
        /\ \A n, m \in DOMAIN local.nics :
              (/\ n # m
               /\ RemoteOf(nb, local.nics[n]) # NoRecord
               /\ RemoteOf(nb, local.nics[n]) = RemoteOf(nb, local.nics[m])) => FALSE

\* C38  The LAG-consistency step cannot abort the run: no run of
\* create_or_update_netbox_network_cards ends with the exception of the
\* lookup of the local interface named like the LAG parent of a remote
\* interface.
C38_LagLookupSucceeds ==
    last.op \in {"network_cards", "failed", "aborted"} =>
        ~(last.raised /\ last.why = "StopIteration")

(***************************************************************************)
(* The type classification alone (network.py, get_netbox_type_for_nic):    *)
(* one call on one local interface, in a server or a virtual-machine run.  *)
(***************************************************************************)
NetworkTypes == {"server", "virtualmachine"}

LinkSpeeds ==
    {"-", "10000Mb/s", "25000Mb/s", "5000Mb/s", "2500Mb/s", "1000Mb/s", "100Mb/s"}

Ports == {"FIBRE", "Direct Attach Copper", "Twisted Pair"}

EthtoolData ==
    {NoRecord} \cup [max_speed : LinkSpeeds, speed : LinkSpeeds, port : Ports]

\* the flags as scan() sets them: virtual only for neither a bond nor a bridge
TypeNics ==
    { n \in [bonding : BOOLEAN, bridge : BOOLEAN, virtual : BOOLEAN,
             ethtool : EthtoolData] :
        n.virtual => (~n.bonding /\ ~n.bridge) }

InitType ==
    \E network_type \in NetworkTypes, nic \in TypeNics :
        /\ nb = Store(<<>>, <<>>, <<>>, <<>>, <<>>)
        /\ local = [network_type |-> network_type, nic |-> nic]
        /\ last = [op |-> "None", ret |-> "None"]
        /\ hist = [ops |-> <<>>]

GetNetboxTypeForNic ==
    /\ hist.ops = <<>>
    /\ last' = [op |-> "get_netbox_type_for_nic",
                ret |-> netbox_type_for_nic(local.network_type, local.nic)]
    /\ hist' = [ops |-> <<"get_netbox_type_for_nic">>]
    /\ UNCHANGED <<nb, local>>

NextType == GetNetboxTypeForNic

SpecType == InitType /\ [][NextType]_vars

\* the speed the table is read at, and the port medium
TableSpeed ==
    IF local.nic.ethtool.max_speed = "-" THEN local.nic.ethtool.speed
    ELSE local.nic.ethtool.max_speed

FibreOrDac == local.nic.ethtool.port \in {"FIBRE", "Direct Attach Copper"}

CopperTypes == {"10gbase-t", "5gbase-t", "2.5gbase-t", "1000base-t"}

\* no earlier rule applies: a server run, no bond, bridge or virtual device
ByLinkData ==
    /\ last.op = "get_netbox_type_for_nic"
    /\ local.network_type # "virtualmachine"
    /\ ~local.nic.bonding /\ ~local.nic.bridge /\ ~local.nic.virtual

Classified ==
    /\ local.network_type = "virtualmachine" => last.ret = "virtual"
    /\ (local.network_type # "virtualmachine" /\ local.nic.bonding) => last.ret = "lag"
    /\ (local.network_type # "virtualmachine" /\ ~local.nic.bonding /\ local.nic.bridge)
           => last.ret = "bridge"
    /\ (local.network_type # "virtualmachine" /\ ~local.nic.bonding /\ ~local.nic.bridge
            /\ local.nic.virtual) => last.ret = "virtual"

SpeedTable(sfp28_copper) ==
    /\ local.nic.ethtool = NoRecord => last.ret = "other"
    /\ local.nic.ethtool # NoRecord =>
        /\ TableSpeed = "10000Mb/s" =>
              last.ret = (IF FibreOrDac THEN "10gbase-x-sfpp" ELSE "10gbase-t")
        /\ TableSpeed = "25000Mb/s" =>
              IF FibreOrDac THEN last.ret = "25gbase-x-sfp28"
              ELSE last.ret \in sfp28_copper
        /\ TableSpeed = "1000Mb/s" =>
              last.ret = (IF FibreOrDac THEN "1000base-x-sfp" ELSE "1000base-t")
        /\ TableSpeed = "5000Mb/s" => last.ret = "5gbase-t"
        /\ TableSpeed = "2500Mb/s" => last.ret = "2.5gbase-t"
        /\ TableSpeed \notin {"10000Mb/s", "25000Mb/s", "1000Mb/s", "5000Mb/s",
                              "2500Mb/s"} => last.ret = "other"

\* C28  Type classification: get_netbox_type_for_nic gives Virtual in a
\* virtual-machine run, else LAG for a bond, else Bridge for a bridge, else
\* Virtual for a virtual device, else the type of the speed (the maximum speed,
\* or the current speed when the maximum is "-") and the port medium: 10G, 25G
\* and 1G give the fibre/DAC type or a copper type by the medium, 5G and 2.5G
\* their copper types, everything else Other.
C28_TypeClassification ==
    last.op = "get_netbox_type_for_nic" =>
        /\ Classified
        /\ ByLinkData => SpeedTable(CopperTypes)

\* C28 as the code has it: 25G gives SFP28 on fibre or DAC and Other on any
\* other medium, for which the table has no type.
C28_TypeClassificationAmended ==
    last.op = "get_netbox_type_for_nic" =>
        /\ Classified
        /\ ByLinkData => SpeedTable({"other"})

\* a 25G port read from the current speed was classified, on fibre
C28_Witness ==
    /\ ByLinkData
    /\ local.nic.ethtool # NoRecord
    /\ local.nic.ethtool.max_speed = "-"
    /\ local.nic.ethtool.speed = "25000Mb/s"
    /\ local.nic.ethtool.port = "FIBRE"
    /\ last.ret = "25gbase-x-sfp28"

(***************************************************************************)
(* Two runs on two different devices, interleaved at their remote calls.   *)
(* Each run is taken through the calls of get_or_create_vlan for the VLAN  *)
(* of its interface and of create_or_update_netbox_ip_on_interface for its *)
(* address; nb is the shared remote, local the inputs of the two runs,     *)
(* last their positions and what their last read returned.                 *)
(***************************************************************************)
Runs == {"A", "B"}

\* the remote interfaces the two runs reconcile, one on each device
RunInterface == [A |-> 101, B |-> 102]

ConcAddresses == {"10.0.0.1/24", "10.9.9.9/32"}

ConcVids == {100, 200}

\* the address records the remote may hold before the two runs
ConcIpSets ==
    { <<>>, <<UniqueIp(0)>>, <<UniqueIp(4)>>, <<AnycastIp(21, 0)>>,
      <<AnycastIp(21, 4)>>, <<UniqueIp(0), AnycastIp(21, 0)>> }

ConcStore(vlans, ips) ==
    [ifaces |-> <<>>, vlans |-> vlans, ips |-> ips, macs |-> <<>>, cables |-> <<>>,
     nextId |-> 50]

InitConc ==
    \E vlans \in {<<>>, <<Vlan100>>}, ips \in ConcIpSets :
    \E vid \in [Runs -> ConcVids], address \in [Runs -> ConcAddresses] :
        /\ nb = ConcStore(vlans, ips)
        /\ local = [r \in Runs |-> [vid |-> vid[r], address |-> address[r],
                                    interface |-> RunInterface[r]]]
        /\ last = [r \in Runs |-> [pc |-> "vlan_get", seen |-> <<>>]]
        /\ hist = [orig |-> ConcStore(vlans, ips)]

\* the context of one remote call of a run on the shared remote
ConcCtx ==
    [ifaces |-> nb.ifaces, vlans |-> nb.vlans, ips |-> nb.ips, macs |-> nb.macs,
     cables |-> nb.cables, nextId |-> nb.nextId, calls |-> <<>>, raised |-> FALSE,
     why |-> "", budget |-> -1, ret |-> NoRecord, cfg |-> DefaultCfg]

Written(st) ==
    nb' = [ifaces |-> st.ifaces, vlans |-> st.vlans, ips |-> st.ips,
           macs |-> st.macs, cables |-> st.cables, nextId |-> st.nextId]

Goto(r, pc, seen) ==
    /\ last' = [last EXCEPT ![r] = [pc |-> pc, seen |-> seen]]
    /\ UNCHANGED <<local, hist>>

\* get_or_create_vlan: nb.ipam.vlans.get(vid=vlan_id)
VlanGet(r) ==
    /\ last[r].pc = "vlan_get"
    /\ LET HasVid(v) == v.vid = local[r].vid
           got == GetOne(ConcCtx, SelectFrom(nb.vlans, HasVid, 1))
       IN  /\ UNCHANGED nb
           /\ IF got.raised THEN Goto(r, "failed", <<>>)
              ELSE IF got.ret = NoRecord THEN Goto(r, "vlan_create", <<>>)
              ELSE Goto(r, "ip_filter", <<>>)

\* get_or_create_vlan: nb.ipam.vlans.create(name, vid)
VlanCreate(r) ==
    /\ last[r].pc = "vlan_create"
    /\ Written(vlans_create(ConcCtx, local[r].vid))
    /\ Goto(r, "ip_filter", <<>>)

\* create_or_update_netbox_ip_on_interface: nb.ipam.ip_addresses.filter and
\* the choice of the write that follows, made on what the filter returned
IpFilter(r) ==
    /\ last[r].pc = "ip_filter"
    /\ UNCHANGED nb
    /\ LET HasAddress(x) == x.address = local[r].address
           netbox_ips == SelectFrom(nb.ips, HasAddress, 1)
           Unassigned(x) == x.iface = 0
           Here(x) == x.iface # 0 /\ x.iface = local[r].interface
       IN  IF Len(netbox_ips) = 0 THEN Goto(r, "ip_create", netbox_ips)
           ELSE IF netbox_ips[1].role = "Anycast"
           THEN IF Len(SelectFrom(netbox_ips, Unassigned, 1)) > 0
                THEN Goto(r, "ip_save", SelectFrom(netbox_ips, Unassigned, 1))
                ELSE IF Len(SelectFrom(netbox_ips, Here, 1)) = 0
                THEN Goto(r, "ip_create", netbox_ips)
                ELSE Goto(r, "done", <<>>)
           ELSE IF netbox_ips[1].iface = 0 \/ netbox_ips[1].iface # local[r].interface
           THEN Goto(r, "ip_save", netbox_ips)
           ELSE Goto(r, "done", <<>>)

\* create_or_update_netbox_ip_on_interface: nb.ipam.ip_addresses.create
IpCreate(r) ==
    /\ last[r].pc = "ip_create"
    /\ Written(ip_addresses_create(ConcCtx, local[r].address,
                                   IF last[r].seen = <<>> THEN "None" ELSE "Anycast",
                                   local[r].interface))
    /\ Goto(r, "done", <<>>)

\* create_or_update_netbox_ip_on_interface: netbox_ip.save() of the record
\* the filter returned, bound to the interface of the run
IpSave(r) ==
    /\ last[r].pc = "ip_save"
    /\ Written(ip_save(ConcCtx,
                       [last[r].seen[1] EXCEPT !.iface = local[r].interface],
                       last[r].seen[1]))
    /\ Goto(r, "done", <<>>)

NextConc ==
    \/ \E r \in Runs : VlanGet(r)
    \/ \E r \in Runs : VlanCreate(r)
    \/ \E r \in Runs : IpFilter(r)
    \/ \E r \in Runs : IpCreate(r)
    \/ \E r \in Runs : IpSave(r)

SpecConc == InitConc /\ [][NextConc]_vars

\* the two calls of one run, each as a whole, on the remote state in st
RunOf(st, r) ==
    create_or_update_netbox_ip_on_interface(
        get_or_create_vlan(st, local[r].vid), local[r].address,
        [id |-> local[r].interface])

\* the remote state after the run of r1 and then the run of r2, from the
\* state the two interleaved runs started in
Sequential(r1, r2) ==
    LET ctx == [ifaces |-> hist.orig.ifaces, vlans |-> hist.orig.vlans,
                ips |-> hist.orig.ips, macs |-> <<>>, cables |-> <<>>,
                nextId |-> hist.orig.nextId, calls |-> <<>>, raised |-> FALSE,
                why |-> "", budget |-> -1, ret |-> NoRecord, cfg |-> DefaultCfg]
        first == RunOf(ctx, r1)
    IN  RunOf([first EXCEPT !.raised = FALSE, !.why = ""], r2)

\* a remote state without its ids: how many VLAN records each vid has and
\* how many address records each (address, role, interface) has
ConcContent(state) ==
    LET vids == {state.vlans[k].vid : k \in DOMAIN state.vlans}
        Triple(x) == <<x.address, x.role, x.iface>>
        triples == {Triple(state.ips[k]) : k \in DOMAIN state.ips}
    IN  [vlans |-> [v \in vids |->
                       Cardinality({k \in DOMAIN state.vlans : state.vlans[k].vid = v})],
         ips |-> [t \in triples |->
                     Cardinality({k \in DOMAIN state.ips : Triple(state.ips[k]) = t})]]

BothRunsEnded == \A r \in Runs : last[r].pc \in {"done", "failed"}

\* C8  Concurrent runs on different devices are safe: whatever the
\* interleaving of their remote calls, the two runs end in a remote state
\* that one of the two sequential orders also ends in; no two VLAN records
\* have the same vid.
C8_InterleavingIsSequential ==
    BothRunsEnded =>
        /\ ConcContent(nb) \in {ConcContent(Sequential("A", "B")),
                               ConcContent(Sequential("B", "A"))}
        /\ \A i, j \in DOMAIN nb.vlans : i # j => nb.vlans[i].vid # nb.vlans[j].vid

\* the two runs both found no VLAN with the vid they share and both created it
C8_DuplicateVlan ==
    /\ BothRunsEnded
    /\ local.A.vid = local.B.vid
    /\ \E i, j \in DOMAIN nb.vlans : i # j /\ nb.vlans[i].vid = nb.vlans[j].vid

====
